---- MODULE Spec2Model ----
(***************************************************************************)
(* SCIM identity-management plugin: the resolution plugin (Configure,      *)
(* GetGroup, GetAllGroups, GetUsersForGroup, GetGroupsForUser) on top of   *)
(* the SCIM API client (GetUser, ListUsers, GetGroup, ListGroups).         *)
(*                                                                         *)
(* A Go error is modelled by the set of sentinel errors errors.Is finds in *)
(* its chain; the nil error is the empty set.  A nil pointer is Nil.       *)
(***************************************************************************)
EXTENDS Integers, Sequences, FiniteSets, TLC

VARIABLES
    scimClient,       \* Plugin.scimClient: Nil or the client Configure built
    params,           \* Plugin.params
    everConfigured,   \* history: a Configure call has succeeded
    configureFailed,  \* history: a Configure call has failed
    last              \* the call in progress: operation, request, outcomes, result

vars == <<scimClient, params, everConfigured, configureFailed, last>>

\* ------------------------------------------------------------------ bounds

\* Largest member list a SCIM group response holds.
MaxMembers == 2

\* Largest resource list a SCIM list response holds.
MaxResources == 2

\* the longest email list of a user whose projection is checked on its own
MaxEmails == 3

\* filter expression trees: the deepest nesting of groups and negations, and
\* the longest list of expressions in a group
MaxFilterDepth == 2
MaxFilterChildren == 2

\* ---------------------------------------------------------------- basics

\* the nil pointer to a struct
Nil == [nil |-> TRUE]

\* the nil *string or *int; a pointer to v is <<v>>
NilPtr == <<>>

\* an argument a client call does not have
None == "<none>"

NoErr == {}

\* as Wrap, the cause formatted with %s: only the chain of base is kept
Wrap_DropsExt(base, ext) == base

\* errs.Wrap: fmt.Errorf("%w: %w", base, ext) keeps both chains.

Wrap(base, ext) == base \cup ext

\* fmt.Errorf("...: %w", err): an anonymous wrapper, the chain of err is kept.
Errorf(err) == err

\* oops ErrID.Wrapf(err, msg): a new error with the message, the cause stays in
\* the chain.
ErrIDWrapf(err, msg) == err \cup {msg}

\* ----------------------------------------------------- sentinel errors

\* plugin package
ErrNoScimClient == {"no scim client exists"}
ErrGetGroup == {"failed to get group"}
ErrGetAllGroups == {"failed to get allx group"}
ErrGetGroupNonExistent == {"group does not existent"}
ErrGetGroupMultipleGroups == {"more than one group"}
ErrGetGroupsForUser == {"failed to get groups for user"}
ErrGetUsersForGroup == {"failed to get users for group"}
ErrNoID == {"no filter id provided"}
ErrNoGroupAttribute == {"no group attribute configured"}

\* scim client package (scim.ErrGetGroup is ScimErrGetGroup here)
ErrAuthNotImplemented == {"API Auth not implemented"}
ErrGetUser == {"error getting SCIM user"}
ErrListUsers == {"error listing SCIM users"}
ScimErrGetGroup == {"error getting SCIM group"}
ErrListGroups == {"error listing SCIM groups"}
ErrClientID == {"failed to load the client id"}
ErrClientSecret == {"failed to load the client secret"}
ErrParsingClientCertificate == {"failed to parse client certificate x509 pair"}
ErrNoFilter == {"filter not provided"}
ErrUnexpectedStatusCode == {"unexpected status code"}

\* causes raised by the libraries the code calls
ErrYaml == {"yaml: unmarshal error"}
ErrSourceRef == {"commoncfg: source ref not loadable"}
ErrParseBool == {"strconv.ParseBool: invalid syntax"}
ErrMTLSLoad == {"commoncfg: mtls config not loadable"}
ErrNewRequest == {"net/http: request not creatable"}
ErrTransport == {"net/http: transport error"}
ErrJSONDecode == {"encoding/json: decode error"}


\* ------------------------------------------------------------- constants

MethodGet == "GET"
MethodPost == "POST"
MethodPut == "PUT"
MethodPatch == "PATCH"
MethodDelete == "DELETE"

StatusOK == 200
StatusNotFound == 404

BasePathGroups == "/Groups"
BasePathUsers == "/Users"
PostSearchPath == ".search"
SearchRequestSchema == "urn:ietf:params:scim:api:messages:2.0:SearchRequest"

defaultListMethod == MethodPost
defaultUserListAttribute == "groups.display"
defaultGroupsFilterAttribute == "displayName"
modifiedByAttribute == "meta.lastModified"

FilterOperatorEqual == "eq"
FilterOperatorGreater == "gt"

ApplicationSCIMJson == "application/scim+json"
HeaderAuthorization == "Authorization"

\* ------------------------------------------------------ input universes

GroupIDs == {"g1", "g2"}
UserIDs == {"u1", "u2"}

\* hosts a configuration can name: one that works, one whose URL does not parse
GoodHost == "https://scim.example"
UnparsableHost == ":bad"
Hosts == {GoodHost, UnparsableHost}

\* methods a configuration can name ("" is the unset list method)
InvalidMethod == "bad method"
Methods == {"", MethodGet, MethodPost, InvalidMethod}

Attributes == {"", "attr"}

SeqsUpTo(S, n) == UNION {[1..k -> S] : k \in 0..n}

EmailLists ==
    { <<>>,
      <<[Primary |-> FALSE, Value |-> "a@x"], [Primary |-> TRUE, Value |-> "b@x"]>> }

\* scim.User as decoded from a response body
ScimUsers ==
    { [ID |-> id, UserName |-> "un-" \o id, DisplayName |-> "dn-" \o id, Emails |-> e] :
        id \in UserIDs, e \in EmailLists }

MemberLists == SeqsUpTo({[Value |-> id] : id \in UserIDs}, MaxMembers)

\* scim.Group as decoded from a response body
ScimGroups ==
    { [ID |-> id, DisplayName |-> "dn-" \o id, Members |-> m] :
        id \in GroupIDs, m \in {<<>>} }

ScimGroupsWithMembers ==
    { [ID |-> "g1", DisplayName |-> "dn-g1", Members |-> m] : m \in MemberLists }

UserLists == {[Resources |-> r] : r \in SeqsUpTo(ScimUsers, MaxResources)}
GroupLists == {[Resources |-> r] : r \in SeqsUpTo(ScimGroups, MaxResources)}

\* What the HTTP exchange of one request can end in: the transport fails (the
\* connection fails, the context is cancelled or times out), or a response
\* arrives with a status and a body that is valid JSON for the expected type
\* (decoding to value) or is not.  closeErr: Body.Close of the response fails.
HTTPOutcomes(Values) ==
    { [kind |-> "senderr", status |-> 0, valid |-> FALSE, value |-> Nil, closeErr |-> FALSE],
      [kind |-> "resp", status |-> StatusNotFound, valid |-> FALSE, value |-> Nil,
       closeErr |-> FALSE],
      [kind |-> "resp", status |-> StatusOK, valid |-> FALSE, value |-> Nil, closeErr |-> FALSE] }
    \cup { [kind |-> "resp", status |-> StatusOK, valid |-> TRUE, value |-> v, closeErr |-> FALSE] :
              v \in Values }

\* the same, and the responses whose body fails to close
HTTPOutcomesClose(Values) ==
    HTTPOutcomes(Values)
    \cup { [o EXCEPT !.closeErr = TRUE] : o \in {x \in HTTPOutcomes(Values) : x.kind = "resp"} }

\* ------------------------------------------------------ filter expressions

NilFilter == [kind |-> "nil"]
NullFilterExpression == [kind |-> "null"]

FilterComparison(attribute, operator, value) ==
    [kind |-> "cmp", Attribute |-> attribute, Operator |-> operator, Value |-> value]

FilterLogicalGroupAnd(expressions) == [kind |-> "and", Expressions |-> expressions]
FilterLogicalGroupOr(expressions) == [kind |-> "or", Expressions |-> expressions]
FilterLogicalGroupNot(expression) == [kind |-> "not", Expression |-> expression]

\* strings.Join
RECURSIVE Join(_, _)
Join(elems, sep) ==
    IF Len(elems) = 0 THEN ""
    ELSE IF Len(elems) = 1 THEN elems[1]
    ELSE elems[1] \o sep \o Join(Tail(elems), sep)

\* as FilterToString, a group of one expression left without parentheses
RECURSIVE FilterToString_SingleUnwrapped(_)
FilterToString_SingleUnwrapped(f) ==
    LET exprStrings == [i \in 1..Len(f.Expressions) |->
                            FilterToString_SingleUnwrapped(f.Expressions[i])]
    IN  CASE f.kind = "cmp" -> f.Attribute \o " " \o f.Operator \o " \"" \o f.Value \o "\""
          [] f.kind = "and" -> IF Len(f.Expressions) = 1 THEN exprStrings[1]
                               ELSE "(" \o Join(exprStrings, " and ") \o ")"
          [] f.kind = "or" -> IF Len(f.Expressions) = 1 THEN exprStrings[1]
                              ELSE "(" \o Join(exprStrings, " or ") \o ")"
          [] f.kind = "not" -> "not " \o FilterToString_SingleUnwrapped(f.Expression)
          [] OTHER -> ""

\* ToString of each filter expression type
RECURSIVE FilterToString(_)
FilterToString(f) ==
    LET exprStrings == [i \in 1..Len(f.Expressions) |-> FilterToString(f.Expressions[i])]
    IN  CASE f.kind = "cmp" -> f.Attribute \o " " \o f.Operator \o " \"" \o f.Value \o "\""
          [] f.kind = "and" -> "(" \o Join(exprStrings, " and ") \o ")"
          [] f.kind = "or" -> "(" \o Join(exprStrings, " or ") \o ")"
          [] f.kind = "not" -> "not " \o FilterToString(f.Expression)
          [] OTHER -> ""

\* ------------------------------------------------------- request builder

\* as buildBodyFromParams, only the nil filter refused
buildBodyFromParams_NilOnly(filter, count, cursor) ==
    IF filter = NilFilter
    THEN [body |-> Nil, err |-> ErrNoFilter]
    ELSE [body |-> [Schemas |-> <<SearchRequestSchema>>, Filter |-> FilterToString(filter),
                    Count |-> count, Cursor |-> cursor],
          err |-> NoErr]

buildBodyFromParams(filter, count, cursor) ==
    IF filter = NilFilter \/ filter = NullFilterExpression
    THEN [body |-> Nil, err |-> ErrNoFilter]
    ELSE [body |-> [Schemas |-> <<SearchRequestSchema>>, Filter |-> FilterToString(filter),
                    Count |-> count, Cursor |-> cursor],
          err |-> NoErr]

\* url.Values: the keys present and their values
buildQueryStringFromParams(filter, cursor, count) ==
    (IF cursor # NilPtr THEN {<<"cursor", cursor[1]>>} ELSE {})
    \cup (IF count # NilPtr THEN {<<"count", count[1]>>} ELSE {})
    \cup (IF filter # NilFilter /\ filter # NullFilterExpression
          THEN {<<"filter", FilterToString(filter)>>} ELSE {})

\* ------------------------------------------------------------ SCIM client

IsWriteMethod(method) == method \in {MethodPost, MethodPut, MethodPatch}

\* http.NewRequestWithContext rejects a method that is not a token and a URL
\* that does not parse; the empty method means GET.
ValidMethod(method) == method # InvalidMethod
UrlParses(host) == host # UnparsableHost
RequestMethod(method) == IF method = "" THEN MethodGet ELSE method

\* what a client operation yields: a result or an error, the HTTP requests it
\* sent, whether it panicked (nil receiver dereferenced), how many times it
\* closed the body of the response, and what it logged
ClientPanic ==
    [result |-> Nil, err |-> NoErr, sent |-> <<>>, panic |-> TRUE, closes |-> 0, log |-> <<>>]

ClientReturn(result, err, r) ==
    LET closes == IF r.resp # Nil THEN 1 ELSE 0
    IN  [result |-> result, err |-> err, sent |-> r.sent, panic |-> FALSE, closes |-> closes,
         log |-> IF closes > 0 /\ r.resp.closeErr THEN <<"failed to close response body">> ELSE <<>>]

\* httpclient.DecodeResponse
DecodeResponse(resp, expectedStatus) ==
    LET respErr == IF resp.status = expectedStatus
                   THEN (IF resp.valid THEN NoErr ELSE ErrJSONDecode)
                   ELSE Errorf(ErrUnexpectedStatusCode)
    IN  IF respErr # NoErr
        THEN [result |-> Nil, err |-> Errorf(respErr)]
        ELSE [result |-> resp.value, err |-> NoErr]

\* []byte(s) for the credential strings of the model
Bytes(str) ==
    CASE str = "" -> <<>>
      [] str = "u" -> <<117>>
      [] str = "id" -> <<105, 100>>
      [] str = "pw" -> <<112, 119>>
      [] str = ":" -> <<58>>

\* encoding/base64: the standard alphabet, and an encoding's padding character
encodeStd ==
    << "A", "B", "C", "D", "E", "F", "G", "H", "I", "J", "K", "L", "M", "N", "O", "P",
       "Q", "R", "S", "T", "U", "V", "W", "X", "Y", "Z", "a", "b", "c", "d", "e", "f",
       "g", "h", "i", "j", "k", "l", "m", "n", "o", "p", "q", "r", "s", "t", "u", "v",
       "w", "x", "y", "z", "0", "1", "2", "3", "4", "5", "6", "7", "8", "9", "+", "/" >>

StdPadding == "="
NoPadding == ""

StdEncoding == [encode |-> encodeStd, padChar |-> StdPadding]
RawStdEncoding == [encode |-> encodeStd, padChar |-> NoPadding]

\* Encoding.Encode from byte si of src on: four characters for each group of
\* three bytes, then two or three characters for a rest of one or two bytes,
\* filled up with the padding character when the encoding has one
RECURSIVE EncodeFrom(_, _, _)
EncodeFrom(enc, src, si) ==
    LET remain == Len(src) - si + 1
        char(v) == enc.encode[(v % 64) + 1]
    IN  IF remain = 0
        THEN ""
        ELSE IF remain >= 3
        THEN LET val == src[si] * 65536 + src[si + 1] * 256 + src[si + 2]
             IN  char(val \div 262144) \o char(val \div 4096) \o char(val \div 64) \o char(val)
                    \o EncodeFrom(enc, src, si + 3)
        ELSE LET val == src[si] * 65536 + (IF remain = 2 THEN src[si + 1] * 256 ELSE 0)
             IN  char(val \div 262144) \o char(val \div 4096)
                    \o (IF remain = 2
                        THEN char(val \div 64)
                                \o (IF enc.padChar # NoPadding THEN enc.padChar ELSE "")
                        ELSE IF enc.padChar # NoPadding
                        THEN enc.padChar \o enc.padChar
                        ELSE "")

EncodeToString(enc, src) == EncodeFrom(enc, src, 1)

\* the headers doRequest sets on a request of the method: Content-Type for a
\* write method, Accept, and Authorization when the client has basic
\* credentials
requestHeader(c, method) ==
    (IF IsWriteMethod(method) THEN {<<"Content-Type", ApplicationSCIMJson>>} ELSE {})
    \cup {<<"Accept", ApplicationSCIMJson>>}
    \cup (IF c.basicAuth # Nil
          THEN {<<HeaderAuthorization,
                  "Basic " \o EncodeToString(
                      RawStdEncoding,
                      Bytes(c.basicAuth.clientID) \o Bytes(":") \o Bytes(c.basicAuth.clientSecret))>>}
          ELSE {})

\* as doRequest, the Content-Type header set whatever the method is
doRequest_ContentTypeAlways(c, req, out) ==
    [resp |-> IF out.kind = "senderr" THEN Nil ELSE out,
     err |-> IF out.kind = "senderr" THEN ErrTransport ELSE NoErr,
     sent |-> <<[req EXCEPT !.header = requestHeader(c, MethodPost)]>>,
     panic |-> FALSE]

\* as doRequest, the request sent a second time when the transport fails
doRequest_RetryOnce(c, req, out) ==
    LET sentReq == [req EXCEPT !.header = requestHeader(c, req.method)]
    IN  IF out.kind = "senderr"
        THEN [resp |-> Nil, err |-> ErrTransport, sent |-> <<sentReq, sentReq>>, panic |-> FALSE]
        ELSE [resp |-> out, err |-> NoErr, sent |-> <<sentReq>>, panic |-> FALSE]

\* Client.doRequest: sets the headers on the request and sends it
doRequest(c, req, out) ==
    [resp |-> IF out.kind = "senderr" THEN Nil ELSE out,
     err |-> IF out.kind = "senderr" THEN ErrTransport ELSE NoErr,
     sent |-> <<[req EXCEPT !.header = requestHeader(c, req.method)]>>,
     panic |-> FALSE]

\* baseCreateAndExecuteHTTPRequest, after doRequest: its error is returned
\* inside a "failed to make request" error
failedToMakeRequest(r) ==
    IF r.err # NoErr THEN [r EXCEPT !.err = Errorf(r.err)] ELSE r

baseCreateAndExecuteHTTPRequest(c, method, resourcePath, queryString, body, out) ==
    IF c = Nil
    THEN [resp |-> Nil, err |-> NoErr, sent |-> <<>>, panic |-> TRUE]
    ELSE IF ~ValidMethod(method) \/ ~UrlParses(c.host)
    THEN [resp |-> Nil, err |-> Errorf(ErrNewRequest), sent |-> <<>>, panic |-> FALSE]
    ELSE failedToMakeRequest(
             doRequest(c,
                       [method |-> RequestMethod(method), url |-> c.host \o resourcePath,
                        query |-> IF queryString = NilPtr THEN {} ELSE queryString[1],
                        body |-> body, header |-> {}],
                       out))

\* as createAndExecuteHTTPRequest, the search body posted to the list path
createAndExecuteHTTPRequest_NoSearchPath(c, method, basePath, filter, cursor, count, out) ==
    IF IsWriteMethod(method)
    THEN LET b == buildBodyFromParams(filter, count, cursor)
         IN  IF b.err # NoErr
             THEN [resp |-> Nil, err |-> Errorf(b.err), sent |-> <<>>, panic |-> FALSE]
             ELSE baseCreateAndExecuteHTTPRequest(
                      c, method, basePath \o "/", <<{}>>, b.body, out)
    ELSE baseCreateAndExecuteHTTPRequest(
             c, method, basePath \o "/",
             <<buildQueryStringFromParams(filter, cursor, count)>>, Nil, out)

createAndExecuteHTTPRequest(c, method, basePath, filter, cursor, count, out) ==
    IF IsWriteMethod(method)
    THEN LET b == buildBodyFromParams(filter, count, cursor)
         IN  IF b.err # NoErr
             THEN [resp |-> Nil, err |-> Errorf(b.err), sent |-> <<>>, panic |-> FALSE]
             ELSE baseCreateAndExecuteHTTPRequest(
                      c, method, basePath \o "/" \o PostSearchPath, <<{}>>, b.body, out)
    ELSE baseCreateAndExecuteHTTPRequest(
             c, method, basePath \o "/",
             <<buildQueryStringFromParams(filter, cursor, count)>>, Nil, out)

\* as FinishOp, the body left open when decoding fails
FinishOp_NoCloseOnDecodeError(marker, r) ==
    IF r.panic
    THEN ClientPanic
    ELSE IF r.err # NoErr
    THEN ClientReturn(Nil, Wrap(marker, r.err), r)
    ELSE LET d == DecodeResponse(r.resp, StatusOK)
         IN  IF d.err # NoErr
             THEN [ClientReturn(Nil, Wrap(marker, d.err), r) EXCEPT !.closes = 0, !.log = <<>>]
             ELSE ClientReturn(d.result, NoErr, r)

\* the common tail of the four operations: wrap a request error under the
\* operation's marker, else decode and wrap a decode error under it; the
\* deferred function closes the body of a response that was obtained and logs
\* a failure to close it (ListUsers defers it after the error check, the
\* others before: a response is non-nil exactly when the error is nil)
FinishOp(marker, r) ==
    IF r.panic
    THEN ClientPanic
    ELSE IF r.err # NoErr
    THEN ClientReturn(Nil, Wrap(marker, r.err), r)
    ELSE LET d == DecodeResponse(r.resp, StatusOK)
         IN  IF d.err # NoErr
             THEN ClientReturn(Nil, Wrap(marker, d.err), r)
             ELSE ClientReturn(d.result, NoErr, r)

ClientGetUser(c, id, out) ==
    FinishOp(ErrGetUser,
             baseCreateAndExecuteHTTPRequest(c, MethodGet, BasePathUsers \o "/" \o id, NilPtr, Nil, out))

ClientListUsers(c, method, filter, cursor, count, out) ==
    FinishOp(ErrListUsers,
             createAndExecuteHTTPRequest(c, method, BasePathUsers, filter, cursor, count, out))

ClientGetGroup(c, id, out) ==
    FinishOp(ScimErrGetGroup,
             baseCreateAndExecuteHTTPRequest(c, MethodGet, BasePathGroups \o "/" \o id, NilPtr, Nil, out))

ClientListGroups(c, method, filter, cursor, count, out) ==
    FinishOp(ErrListGroups,
             createAndExecuteHTTPRequest(c, method, BasePathGroups, filter, cursor, count, out))

\* ---------------------------------------------------------- configuration

\* a commoncfg.SourceRef is the value it resolves to, or Unloadable
Unloadable == "<unloadable>"

LoadValueFromSourceRef(ref) ==
    IF ref = Unloadable
    THEN [value |-> "", err |-> ErrSourceRef]
    ELSE [value |-> ref, err |-> NoErr]

\* strconv.ParseBool
ParseBool(str) ==
    IF str \in {"1", "t", "T", "TRUE", "true", "True"}
    THEN [value |-> TRUE, err |-> NoErr]
    ELSE IF str \in {"0", "f", "F", "FALSE", "false", "False"}
    THEN [value |-> FALSE, err |-> NoErr]
    ELSE [value |-> FALSE, err |-> ErrParseBool]

BasicSecretType == "basic"
MTLSSecretType == "mtls"
OAuth2SecretType == "oauth2"

AuthConfigs ==
    { [Type |-> BasicSecretType, Username |-> u, Password |-> pw, MTLSLoads |-> FALSE] :
        u \in {"id", Unloadable}, pw \in {"pw", Unloadable} }
    \cup { [Type |-> MTLSSecretType, Username |-> "", Password |-> "", MTLSLoads |-> l] :
        l \in BOOLEAN }
    \cup { [Type |-> OAuth2SecretType, Username |-> "", Password |-> "", MTLSLoads |-> FALSE] }

ParamsConfigs ==
    [ GroupAttribute : Attributes \cup {Unloadable},
      UserAttribute : Attributes \cup {Unloadable},
      GroupMembersAttribute : {"members", Unloadable},
      ListMethod : {"", MethodGet, InvalidMethod, Unloadable},
      AllowSearchUsersByGroup : {"true", "false", "maybe", Unloadable} ]

\* config.Config as yaml.Unmarshal fills it
Configs == [Host : Hosts, Auth : AuthConfigs, Params : ParamsConfigs]

\* a ConfigureRequest: YAML that does not parse, or YAML that parses to cfg
ConfigureRequests ==
    {[yamlOK |-> FALSE, cfg |-> Nil]} \cup {[yamlOK |-> TRUE, cfg |-> c] : c \in Configs}

\* the zero value of Params
ZeroParams ==
    [GroupAttribute |-> "", UserAttribute |-> "", GroupMembersAttribute |-> "",
     ListMethod |-> "", AllowSearchUsersByGroup |-> FALSE]

\* as NewClient, the basic credentials also put in the client built for mTLS
NewClient_MTLSKeepsBasic(host, auth) ==
    IF auth.Type = BasicSecretType
    THEN LET clientId == LoadValueFromSourceRef(auth.Username)
             clientSecret == LoadValueFromSourceRef(auth.Password)
         IN  IF clientId.err # NoErr
             THEN [client |-> Nil, err |-> ErrClientID]
             ELSE IF clientSecret.err # NoErr
             THEN [client |-> Nil, err |-> ErrClientSecret]
             ELSE [client |-> [host |-> host,
                               basicAuth |-> [clientID |-> clientId.value,
                                              clientSecret |-> clientSecret.value],
                               mtls |-> FALSE],
                   err |-> NoErr]
    ELSE IF auth.Type = MTLSSecretType
    THEN IF ~auth.MTLSLoads
         THEN [client |-> Nil, err |-> Wrap(ErrParsingClientCertificate, ErrMTLSLoad)]
         ELSE [client |-> [host |-> host,
                           basicAuth |-> [clientID |-> auth.Username,
                                          clientSecret |-> auth.Password],
                           mtls |-> TRUE],
               err |-> NoErr]
    ELSE [client |-> Nil, err |-> ErrAuthNotImplemented]

NewClient(host, auth) ==
    IF auth.Type = BasicSecretType
    THEN LET clientId == LoadValueFromSourceRef(auth.Username)
             clientSecret == LoadValueFromSourceRef(auth.Password)
         IN  IF clientId.err # NoErr
             THEN [client |-> Nil, err |-> ErrClientID]
             ELSE IF clientSecret.err # NoErr
             THEN [client |-> Nil, err |-> ErrClientSecret]
             ELSE [client |-> [host |-> host,
                               basicAuth |-> [clientID |-> clientId.value,
                                              clientSecret |-> clientSecret.value],
                               mtls |-> FALSE],
                   err |-> NoErr]
    ELSE IF auth.Type = MTLSSecretType
    THEN IF ~auth.MTLSLoads
         THEN [client |-> Nil, err |-> Wrap(ErrParsingClientCertificate, ErrMTLSLoad)]
         ELSE [client |-> [host |-> host, basicAuth |-> Nil, mtls |-> TRUE], err |-> NoErr]
    ELSE [client |-> Nil, err |-> ErrAuthNotImplemented]

\* ----------------------------------------------------------------- plugin

\* The plugin p is [scimClient, params].  Configure yields the plugin after the
\* call next to what it returns.
ConfigureFails(p, err) ==
    [scimClient |-> p.scimClient, params |-> p.params, resp |-> Nil, err |-> err]

\* Configure, the loading of the params: each source ref in turn, the first
\* failure ends it
LoadParams(cfg) ==
    LET groupAttr == LoadValueFromSourceRef(cfg.Params.GroupAttribute)
        userAttr == LoadValueFromSourceRef(cfg.Params.UserAttribute)
        groupMemberAttr == LoadValueFromSourceRef(cfg.Params.GroupMembersAttribute)
        listMethod == LoadValueFromSourceRef(cfg.Params.ListMethod)
        allowBytes == LoadValueFromSourceRef(cfg.Params.AllowSearchUsersByGroup)
        allow == ParseBool(allowBytes.value)
        failed(err, msg) == [params |-> Nil, err |-> ErrIDWrapf(err, msg)]
    IN  IF groupAttr.err # NoErr THEN failed(groupAttr.err, "Failed loading group attribute")
        ELSE IF userAttr.err # NoErr THEN failed(userAttr.err, "Failed loading user attribute")
        ELSE IF groupMemberAttr.err # NoErr
        THEN failed(groupMemberAttr.err, "Failed loading group members attribute")
        ELSE IF listMethod.err # NoErr THEN failed(listMethod.err, "Failed loading list method")
        ELSE IF allowBytes.err # NoErr
        THEN failed(allowBytes.err, "Failed loading allow search users by group")
        ELSE IF allow.err # NoErr
        THEN failed(allow.err, "Failed parsing allow search users by group")
        ELSE [params |-> [GroupAttribute |-> groupAttr.value,
                          UserAttribute |-> userAttr.value,
                          GroupMembersAttribute |-> groupMemberAttr.value,
                          ListMethod |-> listMethod.value,
                          AllowSearchUsersByGroup |-> allow.value],
              err |-> NoErr]

\* as Configure, but the client is built and installed before the params are
\* loaded
Configure_ClientFirst(p, req) ==
    IF ~req.yamlOK
    THEN ConfigureFails(p, ErrIDWrapf(ErrYaml, "Failed to get yaml Configuration"))
    ELSE LET c == NewClient(req.cfg.Host, req.cfg.Auth)
             lp == LoadParams(req.cfg)
         IN  IF c.err # NoErr
             THEN ConfigureFails(p, c.err)
             ELSE IF lp.err # NoErr
             THEN [scimClient |-> c.client, params |-> p.params, resp |-> Nil, err |-> lp.err]
             ELSE [scimClient |-> c.client, params |-> lp.params,
                   resp |-> [ok |-> TRUE], err |-> NoErr]

Configure(p, req) ==
    IF ~req.yamlOK
    THEN ConfigureFails(p, ErrIDWrapf(ErrYaml, "Failed to get yaml Configuration"))
    ELSE LET lp == LoadParams(req.cfg)
             c == NewClient(req.cfg.Host, req.cfg.Auth)
         IN  IF lp.err # NoErr
             THEN ConfigureFails(p, lp.err)
             ELSE IF c.err # NoErr
             THEN [scimClient |-> p.scimClient, params |-> lp.params, resp |-> Nil, err |-> c.err]
             ELSE [scimClient |-> c.client, params |-> lp.params,
                   resp |-> [ok |-> TRUE], err |-> NoErr]

\* What a plugin operation yields: the response and the error it returns, the
\* SCIM client calls it made (calls) and the HTTP requests those sent (sent), in
\* order, and whether it panicked instead of returning.
OpReturn(resp, err, calls, sent) ==
    [resp |-> resp, err |-> err, calls |-> calls, sent |-> sent, panic |-> FALSE]

OpPanic(calls, sent) ==
    [resp |-> Nil, err |-> NoErr, calls |-> calls, sent |-> sent, panic |-> TRUE]

ClientCall(op, id, attributes, method, filter) ==
    [op |-> op, id |-> id, attributes |-> attributes, method |-> method,
     filter |-> filter, cursor |-> NilPtr, count |-> NilPtr]

allFilter == FilterComparison(modifiedByAttribute, FilterOperatorGreater, "1970-01-01T00:00:00Z")

\* as getFilter, a comparison built for the empty value too
getFilter_NoBlankCheck(defaultAttribute, value, setAttribute) ==
    FilterComparison(IF setAttribute # "" THEN setAttribute ELSE defaultAttribute,
                     FilterOperatorEqual, value)

getFilter(defaultAttribute, value, setAttribute) ==
    IF value = ""
    THEN NullFilterExpression
    ELSE FilterComparison(IF setAttribute # "" THEN setAttribute ELSE defaultAttribute,
                          FilterOperatorEqual, value)

\* as getPrimaryEmailAddress, the loop not left at the first primary entry
getPrimaryEmailAddress_LastPrimary(user) ==
    LET primaries == {i \in 1..Len(user.Emails) : user.Emails[i].Primary}
    IN  IF primaries # {}
        THEN user.Emails[CHOOSE i \in primaries : \A j \in primaries : i >= j].Value
        ELSE IF Len(user.Emails) > 0
        THEN user.Emails[1].Value
        ELSE ""

getPrimaryEmailAddress(user) ==
    LET primaries == {i \in 1..Len(user.Emails) : user.Emails[i].Primary}
    IN  IF primaries # {}
        THEN user.Emails[CHOOSE i \in primaries : \A j \in primaries : i <= j].Value
        ELSE IF Len(user.Emails) > 0
        THEN user.Emails[1].Value
        ELSE ""

\* as getListMethod, GET when no list method is configured
getListMethod_DefaultGet(p) ==
    IF p.params.ListMethod # "" THEN p.params.ListMethod ELSE MethodGet

getListMethod(p) ==
    IF p.params.ListMethod # "" THEN p.params.ListMethod ELSE defaultListMethod

ResponseGroups(groups) ==
    [i \in 1..Len(groups.Resources) |->
        [Id |-> groups.Resources[i].ID, Name |-> groups.Resources[i].DisplayName]]

ResponseUser(user) ==
    [Id |-> user.ID, Name |-> user.UserName, Email |-> getPrimaryEmailAddress(user)]

\* as listGroups, without the check for the null filter
listGroups_NoNullCheck(p, filter, out) ==
    LET method == getListMethod(p)
        r == ClientListGroups(p.scimClient, method, filter, NilPtr, NilPtr, out)
        calls == <<ClientCall("ListGroups", None, None, method, filter)>>
    IN  IF r.panic THEN OpPanic(calls, r.sent)
        ELSE IF r.err # NoErr THEN OpReturn(Nil, r.err, calls, r.sent)
        ELSE OpReturn(ResponseGroups(r.result), NoErr, calls, r.sent)

\* listGroups yields the projected groups as resp
listGroups(p, filter, out) ==
    IF filter = NullFilterExpression
    THEN OpReturn(Nil, ErrNoID, <<>>, <<>>)
    ELSE LET method == getListMethod(p)
             r == ClientListGroups(p.scimClient, method, filter, NilPtr, NilPtr, out)
             calls == <<ClientCall("ListGroups", None, None, method, filter)>>
         IN  IF r.panic THEN OpPanic(calls, r.sent)
             ELSE IF r.err # NoErr THEN OpReturn(Nil, r.err, calls, r.sent)
             ELSE OpReturn(ResponseGroups(r.result), NoErr, calls, r.sent)

\* as GetGroup, without the check for the client
GetGroup_NoClientCheck(p, request, out) ==
    LET filter == getFilter(defaultGroupsFilterAttribute, request.GroupName, p.params.GroupAttribute)
        l == listGroups(p, filter, out)
    IN  IF l.panic THEN l
        ELSE IF l.err # NoErr THEN OpReturn(Nil, Wrap(ErrGetGroup, l.err), l.calls, l.sent)
        ELSE IF Len(l.resp) = 0
        THEN OpReturn(Nil, Wrap(ErrGetGroup, ErrGetGroupNonExistent), l.calls, l.sent)
        ELSE IF Len(l.resp) > 1
        THEN OpReturn(Nil, Wrap(ErrGetGroup, ErrGetGroupMultipleGroups), l.calls, l.sent)
        ELSE OpReturn([Group |-> l.resp[1]], NoErr, l.calls, l.sent)

\* as GetGroup, two or more matches resolved to the first
GetGroup_FirstMatch(p, request, out) ==
    LET filter == getFilter(defaultGroupsFilterAttribute, request.GroupName, p.params.GroupAttribute)
        l == listGroups(p, filter, out)
    IN  IF p.scimClient = Nil THEN OpReturn(Nil, ErrNoScimClient, <<>>, <<>>)
        ELSE IF l.panic THEN l
        ELSE IF l.err # NoErr THEN OpReturn(Nil, Wrap(ErrGetGroup, l.err), l.calls, l.sent)
        ELSE IF Len(l.resp) = 0
        THEN OpReturn(Nil, Wrap(ErrGetGroup, ErrGetGroupNonExistent), l.calls, l.sent)
        ELSE OpReturn([Group |-> l.resp[1]], NoErr, l.calls, l.sent)

GetGroup(p, request, out) ==
    LET filter == getFilter(defaultGroupsFilterAttribute, request.GroupName, p.params.GroupAttribute)
        l == listGroups(p, filter, out)
    IN  IF p.scimClient = Nil THEN OpReturn(Nil, ErrNoScimClient, <<>>, <<>>)
        ELSE IF l.panic THEN l
        ELSE IF l.err # NoErr THEN OpReturn(Nil, Wrap(ErrGetGroup, l.err), l.calls, l.sent)
        ELSE IF Len(l.resp) = 0
        THEN OpReturn(Nil, Wrap(ErrGetGroup, ErrGetGroupNonExistent), l.calls, l.sent)
        ELSE IF Len(l.resp) > 1
        THEN OpReturn(Nil, Wrap(ErrGetGroup, ErrGetGroupMultipleGroups), l.calls, l.sent)
        ELSE OpReturn([Group |-> l.resp[1]], NoErr, l.calls, l.sent)

\* as GetAllGroups, the marker returned in place of the wrapped error
GetAllGroups_MarkerOnly(p, request, out) ==
    LET method == getListMethod(p)
        r == ClientListGroups(p.scimClient, method, allFilter, NilPtr, NilPtr, out)
        calls == <<ClientCall("ListGroups", None, None, method, allFilter)>>
    IN  IF r.panic THEN OpPanic(calls, r.sent)
        ELSE IF r.err # NoErr THEN OpReturn(Nil, ErrGetAllGroups, calls, r.sent)
        ELSE OpReturn([Groups |-> ResponseGroups(r.result)], NoErr, calls, r.sent)

\* as GetAllGroups, listing by GET with the null filter
GetAllGroups_NullFilterGet(p, request, out) ==
    LET r == ClientListGroups(p.scimClient, MethodGet, NullFilterExpression, NilPtr, NilPtr, out)
        calls == <<ClientCall("ListGroups", None, None, MethodGet, NullFilterExpression)>>
    IN  IF r.panic THEN OpPanic(calls, r.sent)
        ELSE IF r.err # NoErr THEN OpReturn(Nil, Wrap(ErrGetAllGroups, r.err), calls, r.sent)
        ELSE OpReturn([Groups |-> ResponseGroups(r.result)], NoErr, calls, r.sent)

GetAllGroups(p, request, out) ==
    LET method == getListMethod(p)
        r == ClientListGroups(p.scimClient, method, allFilter, NilPtr, NilPtr, out)
        calls == <<ClientCall("ListGroups", None, None, method, allFilter)>>
    IN  IF r.panic THEN OpPanic(calls, r.sent)
        ELSE IF r.err # NoErr THEN OpReturn(Nil, Wrap(ErrGetAllGroups, r.err), calls, r.sent)
        ELSE OpReturn([Groups |-> ResponseGroups(r.result)], NoErr, calls, r.sent)

\* as GetGroupsForUser, the (empty) group list returned next to the error
GetGroupsForUser_RespWithErr(p, request, out) ==
    LET filter == getFilter(defaultUserListAttribute, request.UserId, p.params.UserAttribute)
        l == listGroups(p, filter, out)
    IN  IF p.scimClient = Nil THEN OpReturn(Nil, ErrNoScimClient, <<>>, <<>>)
        ELSE IF l.panic THEN l
        ELSE IF l.err # NoErr
        THEN OpReturn([Groups |-> <<>>], Wrap(ErrGetGroupsForUser, l.err), l.calls, l.sent)
        ELSE OpReturn([Groups |-> l.resp], NoErr, l.calls, l.sent)

GetGroupsForUser(p, request, out) ==
    LET filter == getFilter(defaultUserListAttribute, request.UserId, p.params.UserAttribute)
        l == listGroups(p, filter, out)
    IN  IF p.scimClient = Nil THEN OpReturn(Nil, ErrNoScimClient, <<>>, <<>>)
        ELSE IF l.panic THEN l
        ELSE IF l.err # NoErr THEN OpReturn(Nil, Wrap(ErrGetGroupsForUser, l.err), l.calls, l.sent)
        ELSE OpReturn([Groups |-> l.resp], NoErr, l.calls, l.sent)

\* the helpers of GetUsersForGroup yield the response users as resp

\* as getUsersForGroupUsingUserList, filtering by the user attribute
getUsersForGroupUsingUserList_UserAttribute(p, groupID, out) ==
    LET attr == p.params.UserAttribute
        filter == getFilter(defaultUserListAttribute, groupID, attr)
        method == getListMethod(p)
        r == ClientListUsers(p.scimClient, method, filter, NilPtr, NilPtr, out)
        calls == <<ClientCall("ListUsers", None, None, method, filter)>>
    IN  IF p.params.GroupAttribute = ""
        THEN OpReturn(Nil, Wrap(ErrGetUsersForGroup, ErrNoGroupAttribute), <<>>, <<>>)
        ELSE IF r.panic THEN OpPanic(calls, r.sent)
        ELSE IF r.err # NoErr THEN OpReturn(Nil, Wrap(ErrGetUsersForGroup, r.err), calls, r.sent)
        ELSE OpReturn([i \in 1..Len(r.result.Resources) |-> ResponseUser(r.result.Resources[i])],
                      NoErr, calls, r.sent)

\* as getUsersForGroupUsingUserList, falling back to the default attribute
\* when no group attribute is configured
getUsersForGroupUsingUserList_FallsBack(p, groupID, out) ==
    LET attr == p.params.GroupAttribute
        filter == getFilter(defaultUserListAttribute, groupID, attr)
        method == getListMethod(p)
        r == ClientListUsers(p.scimClient, method, filter, NilPtr, NilPtr, out)
        calls == <<ClientCall("ListUsers", None, None, method, filter)>>
    IN  IF r.panic THEN OpPanic(calls, r.sent)
        ELSE IF r.err # NoErr THEN OpReturn(Nil, Wrap(ErrGetUsersForGroup, r.err), calls, r.sent)
        ELSE OpReturn([i \in 1..Len(r.result.Resources) |-> ResponseUser(r.result.Resources[i])],
                      NoErr, calls, r.sent)

getUsersForGroupUsingUserList(p, groupID, out) ==
    LET attr == p.params.GroupAttribute
        filter == getFilter(defaultUserListAttribute, groupID, attr)
        method == getListMethod(p)
        r == ClientListUsers(p.scimClient, method, filter, NilPtr, NilPtr, out)
        calls == <<ClientCall("ListUsers", None, None, method, filter)>>
    IN  IF attr = ""
        THEN OpReturn(Nil, Wrap(ErrGetUsersForGroup, ErrNoGroupAttribute), <<>>, <<>>)
        ELSE IF r.panic THEN OpPanic(calls, r.sent)
        ELSE IF r.err # NoErr THEN OpReturn(Nil, Wrap(ErrGetUsersForGroup, r.err), calls, r.sent)
        ELSE OpReturn([i \in 1..Len(r.result.Resources) |-> ResponseUser(r.result.Resources[i])],
                      NoErr, calls, r.sent)

\* as membersLoop, each user put in front of those fetched before
RECURSIVE membersLoop_Prepends(_, _, _, _, _, _, _)
membersLoop_Prepends(p, members, outs, i, responseUsers, calls, sent) ==
    IF i > Len(members)
    THEN OpReturn(responseUsers, NoErr, calls, sent)
    ELSE LET r == ClientGetUser(p.scimClient, members[i].Value, outs[i])
             calls2 == Append(calls, ClientCall("GetUser", members[i].Value, None, None, NilFilter))
             sent2 == sent \o r.sent
         IN  IF r.panic THEN OpPanic(calls2, sent2)
             ELSE IF r.err # NoErr
             THEN OpReturn(Nil, Wrap(ErrGetUsersForGroup, r.err), calls2, sent2)
             ELSE membersLoop_Prepends(p, members, outs, i + 1,
                                       <<ResponseUser(r.result)>> \o responseUsers, calls2, sent2)

\* as membersLoop, a member whose fetch fails is left out
RECURSIVE membersLoop_SkipsFailed(_, _, _, _, _, _, _)
membersLoop_SkipsFailed(p, members, outs, i, responseUsers, calls, sent) ==
    IF i > Len(members)
    THEN OpReturn(responseUsers, NoErr, calls, sent)
    ELSE LET r == ClientGetUser(p.scimClient, members[i].Value, outs[i])
             calls2 == Append(calls, ClientCall("GetUser", members[i].Value, None, None, NilFilter))
             sent2 == sent \o r.sent
         IN  IF r.panic THEN OpPanic(calls2, sent2)
             ELSE IF r.err # NoErr
             THEN membersLoop_SkipsFailed(p, members, outs, i + 1, responseUsers, calls2, sent2)
             ELSE membersLoop_SkipsFailed(p, members, outs, i + 1,
                                          Append(responseUsers, ResponseUser(r.result)),
                                          calls2, sent2)

\* as membersLoop, the members after a failed fetch still fetched before the
\* error is returned
RECURSIVE membersLoop_FetchesRest(_, _, _, _, _, _, _)
membersLoop_FetchesRest(p, members, outs, i, responseUsers, calls, sent) ==
    IF i > Len(members)
    THEN OpReturn(responseUsers, NoErr, calls, sent)
    ELSE LET r == ClientGetUser(p.scimClient, members[i].Value, outs[i])
             calls2 == Append(calls, ClientCall("GetUser", members[i].Value, None, None, NilFilter))
             sent2 == sent \o r.sent
         IN  IF r.panic THEN OpPanic(calls2, sent2)
             ELSE IF r.err # NoErr
             THEN LET rest == membersLoop_FetchesRest(p, members, outs, i + 1, responseUsers,
                                                      calls2, sent2)
                  IN  OpReturn(Nil, Wrap(ErrGetUsersForGroup, r.err), rest.calls, rest.sent)
             ELSE membersLoop_FetchesRest(p, members, outs, i + 1,
                                          Append(responseUsers, ResponseUser(r.result)),
                                          calls2, sent2)

\* the loop over group.Members, from member i on
RECURSIVE membersLoop(_, _, _, _, _, _, _)
membersLoop(p, members, outs, i, responseUsers, calls, sent) ==
    IF i > Len(members)
    THEN OpReturn(responseUsers, NoErr, calls, sent)
    ELSE LET r == ClientGetUser(p.scimClient, members[i].Value, outs[i])
             calls2 == Append(calls, ClientCall("GetUser", members[i].Value, None, None, NilFilter))
             sent2 == sent \o r.sent
         IN  IF r.panic THEN OpPanic(calls2, sent2)
             ELSE IF r.err # NoErr
             THEN OpReturn(Nil, Wrap(ErrGetUsersForGroup, r.err), calls2, sent2)
             ELSE membersLoop(p, members, outs, i + 1,
                              Append(responseUsers, ResponseUser(r.result)), calls2, sent2)

getUsersForGroupUsingGroupMembers(p, groupID, groupOut, userOuts) ==
    LET r == ClientGetGroup(p.scimClient, groupID, groupOut)
        calls == <<ClientCall("GetGroup", groupID, p.params.GroupMembersAttribute, None, NilFilter)>>
    IN  IF r.panic THEN OpPanic(calls, r.sent)
        ELSE IF r.err # NoErr THEN OpReturn(Nil, Wrap(ErrGetUsersForGroup, r.err), calls, r.sent)
        ELSE membersLoop(p, r.result.Members, userOuts, 1, <<>>, calls, r.sent)

\* env: the outcomes of the exchanges the call may start: env.list for the
\* user listing, env.group for the group fetch, env.users[i] for the i-th
\* user fetch
GetUsersForGroup(p, request, env) ==
    LET groupID == request.GroupId
        r == IF p.params.AllowSearchUsersByGroup
             THEN getUsersForGroupUsingUserList(p, groupID, env.list)
             ELSE getUsersForGroupUsingGroupMembers(p, groupID, env.group, env.users)
    IN  IF p.scimClient = Nil THEN OpReturn(Nil, ErrNoScimClient, <<>>, <<>>)
        ELSE IF groupID = "" THEN OpReturn(Nil, Wrap(ErrGetUsersForGroup, ErrNoID), <<>>, <<>>)
        ELSE IF r.panic THEN r
        ELSE IF r.err # NoErr
        THEN OpReturn(Nil, Wrap(ErrGetUsersForGroup, r.err), r.calls, r.sent)
        ELSE OpReturn([Users |-> r.resp], NoErr, r.calls, r.sent)

\* ------------------------------------------------------- the environment

UserOutcomes == HTTPOutcomes(ScimUsers)
GroupOutcomes == HTTPOutcomes(ScimGroupsWithMembers)
UserListOutcomes == HTTPOutcomes(UserLists)
GroupListOutcomes == HTTPOutcomes(GroupLists)

SendFails == [kind |-> "senderr", status |-> 0, valid |-> FALSE, value |-> Nil, closeErr |-> FALSE]

NumMembers(groupOut) == IF groupOut.valid THEN Len(groupOut.value.Members) ELSE 0

\* the outcomes a GetUsersForGroup call can meet: those of a user listing, and
\* those of a group fetch with one user fetch per member of the fetched group
Envs ==
    { [list |-> l, group |-> SendFails, users |-> <<>>] : l \in UserListOutcomes }
    \cup UNION { { [list |-> SendFails, group |-> g, users |-> u] :
                     u \in [1..NumMembers(g) -> UserOutcomes] } : g \in GroupOutcomes }

\* what is wrong with a ConfigureRequest: its YAML, a source ref of its params,
\* the boolean of its params, the construction of the client from its auth
Defects(req) ==
    IF ~req.yamlOK
    THEN {"yaml"}
    ELSE (IF Unloadable \in {req.cfg.Params.GroupAttribute, req.cfg.Params.UserAttribute,
                             req.cfg.Params.GroupMembersAttribute, req.cfg.Params.ListMethod,
                             req.cfg.Params.AllowSearchUsersByGroup}
          THEN {"ref"} ELSE {})
         \cup (IF req.cfg.Params.AllowSearchUsersByGroup # Unloadable
                  /\ ParseBool(req.cfg.Params.AllowSearchUsersByGroup).err # NoErr
               THEN {"bool"} ELSE {})
         \cup (IF NewClient(req.cfg.Host, req.cfg.Auth).err # NoErr THEN {"client"} ELSE {})

\* ---------------------------------------------------------- state machine

\* last is the call the host has made and not yet received the answer of:
\* its operation, request, the outcomes it met and what it yielded.
Idle == [op |-> "idle", req |-> Nil, env |-> Nil, out |-> Nil]

P == [scimClient |-> scimClient, params |-> params]

Init ==
    /\ scimClient = Nil
    /\ params = ZeroParams
    /\ everConfigured = FALSE
    /\ configureFailed = FALSE
    /\ last = Idle

CallConfigure ==
    /\ last.op = "idle"
    /\ \E req \in ConfigureRequests :
         LET r == Configure(P, req)
         IN  /\ scimClient' = r.scimClient
             /\ params' = r.params
             /\ everConfigured' = (everConfigured \/ r.err = NoErr)
             /\ configureFailed' = (configureFailed \/ r.err # NoErr)
             /\ last' = [op |-> "Configure", req |-> [defects |-> Defects(req)], env |-> Nil,
                         out |-> OpReturn(r.resp, r.err, <<>>, <<>>)]

CallGetGroup ==
    /\ last.op = "idle"
    /\ \E name \in GroupIDs \cup {""}, out \in GroupListOutcomes :
         last' = [op |-> "GetGroup", req |-> [GroupName |-> name], env |-> out,
                  out |-> GetGroup(P, [GroupName |-> name], out)]
    /\ UNCHANGED <<scimClient, params, everConfigured, configureFailed>>

CallGetAllGroups ==
    /\ last.op = "idle"
    /\ \E out \in GroupListOutcomes :
         last' = [op |-> "GetAllGroups", req |-> Nil, env |-> out,
                  out |-> GetAllGroups(P, Nil, out)]
    /\ UNCHANGED <<scimClient, params, everConfigured, configureFailed>>

CallGetUsersForGroup ==
    /\ last.op = "idle"
    /\ \E id \in GroupIDs \cup {""}, env \in Envs :
         last' = [op |-> "GetUsersForGroup", req |-> [GroupId |-> id], env |-> env,
                  out |-> GetUsersForGroup(P, [GroupId |-> id], env)]
    /\ UNCHANGED <<scimClient, params, everConfigured, configureFailed>>

CallGetGroupsForUser ==
    /\ last.op = "idle"
    /\ \E id \in UserIDs \cup {""}, out \in GroupListOutcomes :
         last' = [op |-> "GetGroupsForUser", req |-> [UserId |-> id], env |-> out,
                  out |-> GetGroupsForUser(P, [UserId |-> id], out)]
    /\ UNCHANGED <<scimClient, params, everConfigured, configureFailed>>

\* the host receives what the call returned; a call that panicked has taken
\* the plugin process down and nothing follows it
HostReceive ==
    /\ last.op # "idle"
    /\ ~last.out.panic
    /\ last' = Idle
    /\ UNCHANGED <<scimClient, params, everConfigured, configureFailed>>

Next ==
    \/ CallConfigure
    \/ CallGetGroup
    \/ CallGetAllGroups
    \/ CallGetUsersForGroup
    \/ CallGetGroupsForUser
    \/ HostReceive

Spec == Init /\ [][Next]_vars

\* ------------------------------------ the SCIM client used on its own

\* the clients NewClient can build
Clients == {NewClient(h, a).client : h \in Hosts, a \in AuthConfigs} \ {Nil}

\* the auth configurations a caller of NewClient can pass: as AuthConfigs, with
\* client ids and secrets of several lengths, the empty ones included
ClientAuthConfigs ==
    { [Type |-> BasicSecretType, Username |-> u, Password |-> pw, MTLSLoads |-> FALSE] :
        u \in {"id", "u", "", Unloadable}, pw \in {"pw", "", Unloadable} }
    \cup { [Type |-> MTLSSecretType, Username |-> u, Password |-> "", MTLSLoads |-> l] :
        u \in {"id", ""}, l \in BOOLEAN }
    \cup { [Type |-> OAuth2SecretType, Username |-> u, Password |-> "", MTLSLoads |-> FALSE] :
        u \in {"id", ""} }

\* the methods a caller of ListUsers and ListGroups can pass
ClientMethods == Methods \cup {MethodPut, MethodPatch, MethodDelete}

Filters ==
    {NilFilter, NullFilterExpression,
     FilterComparison("displayName", FilterOperatorEqual, "None")}

InitClient ==
    /\ scimClient \in Clients
    /\ params = ZeroParams
    /\ everConfigured = FALSE
    /\ configureFailed = FALSE
    /\ last = Idle

ListRequests ==
    [method : ClientMethods, filter : Filters, cursor : {NilPtr, <<"c1">>},
     count : {NilPtr, <<10>>}]

\* the caller builds a client and, when that succeeds, uses it from then on
CallNewClient ==
    /\ last.op = "idle"
    /\ \E host \in Hosts, auth \in ClientAuthConfigs :
         LET r == NewClient(host, auth)
         IN  /\ scimClient' = IF r.err = NoErr THEN r.client ELSE scimClient
             /\ last' = [op |-> "NewClient", req |-> [host |-> host, auth |-> auth], env |-> Nil,
                         out |-> [result |-> r.client, err |-> r.err, sent |-> <<>>,
                                  panic |-> FALSE, closes |-> 0, log |-> <<>>]]
    /\ UNCHANGED <<params, everConfigured, configureFailed>>

CallClientGetUser ==
    /\ last.op = "idle"
    /\ \E id \in UserIDs, out \in HTTPOutcomesClose(ScimUsers) :
         last' = [op |-> "Client.GetUser", req |-> [id |-> id], env |-> out,
                  out |-> ClientGetUser(scimClient, id, out)]
    /\ UNCHANGED <<scimClient, params, everConfigured, configureFailed>>

CallClientListUsers ==
    /\ last.op = "idle"
    /\ \E req \in ListRequests, out \in HTTPOutcomesClose(UserLists) :
         last' = [op |-> "Client.ListUsers", req |-> req, env |-> out,
                  out |-> ClientListUsers(scimClient, req.method, req.filter,
                                          req.cursor, req.count, out)]
    /\ UNCHANGED <<scimClient, params, everConfigured, configureFailed>>

CallClientGetGroup ==
    /\ last.op = "idle"
    /\ \E id \in GroupIDs, out \in HTTPOutcomesClose(ScimGroupsWithMembers) :
         last' = [op |-> "Client.GetGroup", req |-> [id |-> id], env |-> out,
                  out |-> ClientGetGroup(scimClient, id, out)]
    /\ UNCHANGED <<scimClient, params, everConfigured, configureFailed>>

CallClientListGroups ==
    /\ last.op = "idle"
    /\ \E req \in ListRequests, out \in HTTPOutcomesClose(GroupLists) :
         last' = [op |-> "Client.ListGroups", req |-> req, env |-> out,
                  out |-> ClientListGroups(scimClient, req.method, req.filter,
                                           req.cursor, req.count, out)]
    /\ UNCHANGED <<scimClient, params, everConfigured, configureFailed>>

NextClient ==
    \/ CallNewClient
    \/ CallClientGetUser
    \/ CallClientListUsers
    \/ CallClientGetGroup
    \/ CallClientListGroups
    \/ HostReceive

SpecClient == InitClient /\ [][NextClient]_vars

\* ------------------------------- the projection of a user on its own

EmailValues == {"a@x", "b@x"}

\* the users a SCIM server can return, by their email lists
ProjectedUsers ==
    { [ID |-> "u1", UserName |-> "un-u1", DisplayName |-> "dn-u1", Emails |-> e] :
        e \in SeqsUpTo([Primary : BOOLEAN, Value : EmailValues], MaxEmails) }

InitProjection ==
    /\ scimClient = Nil
    /\ params = ZeroParams
    /\ everConfigured = FALSE
    /\ configureFailed = FALSE
    /\ last \in {[op |-> "user", req |-> u, env |-> Nil, out |-> Nil] : u \in ProjectedUsers}

\* the user is put in a response
ProjectUser ==
    /\ last.op = "user"
    /\ last' = [op |-> "ResponseUser", req |-> last.req, env |-> Nil,
                out |-> ResponseUser(last.req)]
    /\ UNCHANGED <<scimClient, params, everConfigured, configureFailed>>

NextProjection == ProjectUser

SpecProjection == InitProjection /\ [][NextProjection]_vars

\* --------------------------------- filter expressions on their own

FilterLeaves ==
    {FilterComparison("name", FilterOperatorEqual, "John"),
     FilterComparison("group", FilterOperatorEqual, "CMK")}

\* the lists of expressions of a group: comparisons, and at most one
\* expression of sub that is not a comparison, at any place among them
ChildLists(sub) ==
    SeqsUpTo(FilterLeaves, MaxFilterChildren)
    \cup UNION { { SubSeq(l, 1, i - 1) \o <<x>> \o SubSeq(l, i, Len(l)) :
                     i \in 1..(Len(l) + 1), x \in sub \ FilterLeaves } :
                   l \in SeqsUpTo(FilterLeaves, MaxFilterChildren - 1) }

\* the trees of comparisons nested in groups and negations up to depth
RECURSIVE FilterTrees(_)
FilterTrees(depth) ==
    IF depth = 0
    THEN FilterLeaves
    ELSE LET sub == FilterTrees(depth - 1)
             lists == ChildLists(sub)
         IN  FilterLeaves
             \cup {FilterLogicalGroupNot(x) : x \in sub}
             \cup {FilterLogicalGroupAnd(l) : l \in lists}
             \cup {FilterLogicalGroupOr(l) : l \in lists}

\* the filter expressions a caller can build: those trees, the null filter and
\* the null filter negated or grouped
FilterExpressions ==
    FilterTrees(MaxFilterDepth)
    \cup {NullFilterExpression, FilterLogicalGroupNot(NullFilterExpression),
          FilterLogicalGroupAnd(<<NullFilterExpression, NullFilterExpression>>)}

InitFilter ==
    /\ scimClient = Nil
    /\ params = ZeroParams
    /\ everConfigured = FALSE
    /\ configureFailed = FALSE
    /\ last \in {[op |-> "ToString", req |-> f, env |-> Nil, out |-> <<>>] : f \in FilterExpressions}

\* the caller calls ToString on the expression it holds, a first and a second
\* time
CallToString ==
    /\ last.op = "ToString"
    /\ Len(last.out) < 2
    /\ last' = [last EXCEPT !.out = Append(@, FilterToString(last.req))]
    /\ UNCHANGED <<scimClient, params, everConfigured, configureFailed>>

NextFilter == CallToString

SpecFilter == InitFilter /\ [][NextFilter]_vars

\* ------------------------------------------------------------ properties

ResolutionOps == {"GetGroup", "GetUsersForGroup", "GetGroupsForUser"}
PluginOps == ResolutionOps \cup {"GetAllGroups"}

\* the exchange ended in a 200 response that decodes
RespOK(out) == out.kind = "resp" /\ out.status = StatusOK /\ out.valid

\* C1: while no Configure call has succeeded, GetGroup, GetUsersForGroup and
\* GetGroupsForUser return exactly ErrNoScimClient, for every request (a blank
\* id or name included), with no response, no SCIM client call and no HTTP
\* request.
C1_NoClientBeforeConfigure ==
    (~everConfigured /\ last.op \in ResolutionOps)
        => /\ ~last.out.panic
           /\ last.out.err = ErrNoScimClient
           /\ last.out.resp = Nil
           /\ last.out.calls = <<>>
           /\ last.out.sent = <<>>

C1_Witness ==
    /\ ~everConfigured
    /\ last.op = "GetUsersForGroup"
    /\ last.req.GroupId = ""
    /\ last.out.err = ErrNoScimClient

\* C2: a Configure call on a plugin that has never been configured and whose
\* request has a defect (YAML, source ref, boolean, client construction)
\* returns an error and no response and leaves the plugin without a client;
\* whenever such a call returned an error the client is absent; and every
\* GetGroup, GetUsersForGroup and GetGroupsForUser call made after a failed
\* Configure, while none has succeeded, returns ErrNoScimClient.
C2_FailedConfigureLeavesNoClient ==
    [][ /\ (last.op = "idle" /\ last'.op = "Configure" /\ ~everConfigured
               /\ last'.req.defects # {})
            => (last'.out.err # NoErr /\ last'.out.resp = Nil
                /\ scimClient' = Nil /\ ~everConfigured')
        /\ (last.op = "idle" /\ last'.op = "Configure" /\ ~everConfigured
               /\ last'.out.err # NoErr)
            => scimClient' = Nil
        /\ (last.op = "idle" /\ configureFailed /\ ~everConfigured
               /\ last'.op \in ResolutionOps)
            => (last'.out.err = ErrNoScimClient /\ last'.out.calls = <<>>
                /\ scimClient' = Nil) ]_vars

C2_Witness ==
    /\ configureFailed
    /\ ~everConfigured
    /\ params # ZeroParams
    /\ last.op = "GetGroup"
    /\ last.out.err = ErrNoScimClient

\* C3: on a configured plugin GetGroup with a non-blank name returns a group
\* only when the list response holds exactly one resource, and then that
\* resource; with a list response of zero resources it returns the "group does
\* not exist" error, with two or more the "multiple groups" error, and no
\* group.
C3_GetGroupExactlyOne ==
    (last.op = "GetGroup" /\ scimClient # Nil /\ last.req.GroupName # "")
        => /\ ~last.out.panic
           /\ last.out.resp # Nil
                => /\ RespOK(last.env)
                   /\ Len(last.env.value.Resources) = 1
                   /\ last.out.resp =
                        [Group |-> [Id |-> last.env.value.Resources[1].ID,
                                    Name |-> last.env.value.Resources[1].DisplayName]]
                   /\ last.out.err = NoErr
           /\ (last.out.sent # <<>> /\ RespOK(last.env))
                => LET n == Len(last.env.value.Resources)
                   IN  /\ n = 0 => (last.out.resp = Nil
                                    /\ ErrGetGroupNonExistent \subseteq last.out.err)
                       /\ n > 1 => (last.out.resp = Nil
                                    /\ ErrGetGroupMultipleGroups \subseteq last.out.err)
                       /\ n = 1 => last.out.resp # Nil

C3_Witness ==
    /\ last.op = "GetGroup"
    /\ scimClient # Nil
    /\ last.req.GroupName # ""
    /\ RespOK(last.env)
    /\ Len(last.env.value.Resources) = 2
    /\ ErrGetGroupMultipleGroups \subseteq last.out.err

\* C4: on a configured plugin GetUsersForGroup with a blank group id and
\* GetGroupsForUser with a blank user id return an error whose chain holds
\* ErrNoID and no response, and make no SCIM client call and no HTTP request.
C4_BlankIdFailsFast ==
    (/\ scimClient # Nil
     /\ \/ (last.op = "GetUsersForGroup" /\ last.req.GroupId = "")
        \/ (last.op = "GetGroupsForUser" /\ last.req.UserId = ""))
        => /\ ~last.out.panic
           /\ ErrNoID \subseteq last.out.err
           /\ last.out.resp = Nil
           /\ last.out.calls = <<>>
           /\ last.out.sent = <<>>

C4_Witness ==
    /\ scimClient # Nil
    /\ last.op = "GetGroupsForUser"
    /\ last.req.UserId = ""
    /\ ErrNoID \subseteq last.out.err
    /\ params.ListMethod = MethodGet

\* C5: with allowSearchUsersByGroup=false a successful GetUsersForGroup on a
\* group of n members makes one GetGroup call and then n GetUser calls, one per
\* member in member-list order (each one HTTP GET), and returns the n users
\* fetched, in that order.
C5_TraversalCallsInMemberOrder ==
    (/\ last.op = "GetUsersForGroup"
     /\ scimClient # Nil
     /\ ~params.AllowSearchUsersByGroup
     /\ ~last.out.panic
     /\ last.out.err = NoErr)
        => /\ RespOK(last.env.group)
           /\ LET members == last.env.group.value.Members
                  n == Len(members)
                  o == last.out
              IN  /\ Len(o.calls) = n + 1
                  /\ o.calls[1].op = "GetGroup"
                  /\ o.calls[1].id = last.req.GroupId
                  /\ \A i \in 1..n : /\ o.calls[i + 1].op = "GetUser"
                                     /\ o.calls[i + 1].id = members[i].Value
                  /\ Len(o.sent) = n + 1
                  /\ o.sent[1].url = scimClient.host \o "/Groups/" \o last.req.GroupId
                  /\ \A i \in 1..n :
                        o.sent[i + 1].url = scimClient.host \o "/Users/" \o members[i].Value
                  /\ \A i \in 1..(n + 1) : o.sent[i].method = MethodGet
                  /\ Len(o.resp.Users) = n
                  /\ \A i \in 1..n : /\ o.resp.Users[i].Id = last.env.users[i].value.ID
                                     /\ o.resp.Users[i].Name = last.env.users[i].value.UserName

C5_Witness ==
    /\ last.op = "GetUsersForGroup"
    /\ scimClient # Nil
    /\ ~params.AllowSearchUsersByGroup
    /\ last.out.err = NoErr
    /\ Len(last.out.resp.Users) = 2
    /\ last.out.resp.Users[1].Id = "u2"
    /\ last.out.resp.Users[2].Id = "u1"
    /\ Len(last.out.calls) = 3

\* C6: with allowSearchUsersByGroup=false, when the group fetch succeeds and
\* the fetch of some member (whichever) fails, GetUsersForGroup returns an
\* error and no response.
C6_MemberFailureFailsAll ==
    (/\ last.op = "GetUsersForGroup"
     /\ scimClient # Nil
     /\ ~params.AllowSearchUsersByGroup
     /\ last.req.GroupId # ""
     /\ RespOK(last.env.group)
     /\ \E i \in 1..Len(last.env.users) : ~RespOK(last.env.users[i]))
        => /\ ~last.out.panic
           /\ last.out.err # NoErr
           /\ ErrGetUsersForGroup \subseteq last.out.err
           /\ last.out.resp = Nil

C6_Witness ==
    /\ last.op = "GetUsersForGroup"
    /\ scimClient # Nil
    /\ ~params.AllowSearchUsersByGroup
    /\ RespOK(last.env.group)
    /\ Len(last.env.users) = 2
    /\ RespOK(last.env.users[1])
    /\ ~RespOK(last.env.users[2])
    /\ Len(last.out.sent) = 3
    /\ ErrGetUser \subseteq last.out.err
    /\ last.out.resp = Nil

\* the calls of a GetUsersForGroup are one ListUsers call filtered by
\* attribute eq groupID
OneFilteredListUsers(calls, attribute, groupID) ==
    /\ Len(calls) = 1
    /\ calls[1].op = "ListUsers"
    /\ calls[1].filter = FilterComparison(attribute, FilterOperatorEqual, groupID)

\* C7 as stated: the flag alone selects the strategy: when it is true a call
\* with a non-blank group id makes exactly one ListUsers call filtered by the
\* configured attribute equal to the group id and no other call, when it is
\* false no ListUsers call.
C7_FlagAloneSelectsStrategy ==
    (last.op = "GetUsersForGroup" /\ scimClient # Nil /\ last.req.GroupId # "")
        => IF params.AllowSearchUsersByGroup
           THEN OneFilteredListUsers(last.out.calls, params.GroupAttribute, last.req.GroupId)
           ELSE \A i \in 1..Len(last.out.calls) : last.out.calls[i].op # "ListUsers"

\* C7 amended: when the flag is true and the configured group attribute is not
\* empty, a call with a non-blank group id makes exactly one ListUsers call,
\* filtered by that attribute equal to the group id, and no other call; when
\* the flag is true and the group attribute is empty it makes no call at all
\* and returns an error; when the flag is false it makes no ListUsers call.
C7_FlagAndAttributeSelectStrategy ==
    (last.op = "GetUsersForGroup" /\ scimClient # Nil /\ last.req.GroupId # "")
        => IF params.AllowSearchUsersByGroup /\ params.GroupAttribute # ""
           THEN OneFilteredListUsers(last.out.calls, params.GroupAttribute, last.req.GroupId)
           ELSE IF params.AllowSearchUsersByGroup
           THEN last.out.calls = <<>> /\ last.out.err # NoErr /\ last.out.resp = Nil
           ELSE \A i \in 1..Len(last.out.calls) : last.out.calls[i].op # "ListUsers"

C7_Witness ==
    /\ last.op = "GetUsersForGroup"
    /\ scimClient # Nil
    /\ last.req.GroupId = "g2"
    /\ params.AllowSearchUsersByGroup
    /\ params.GroupAttribute = "attr"
    /\ Len(last.out.sent) = 1
    /\ last.out.err = NoErr

\* C8: every plugin operation that returns, returns a response and no error or
\* an error and no response, whatever the SCIM calls ended in; a response
\* holds one entry per resource of the list response, or per member of the
\* group.
C8_ResponseXorError ==
    (last.op \in PluginOps /\ ~last.out.panic)
        => /\ \/ (last.out.resp # Nil /\ last.out.err = NoErr)
              \/ (last.out.resp = Nil /\ last.out.err # NoErr)
           /\ (last.out.resp # Nil /\ last.op \in {"GetAllGroups", "GetGroupsForUser"})
                => /\ RespOK(last.env)
                   /\ Len(last.out.resp.Groups) = Len(last.env.value.Resources)
           /\ (last.out.resp # Nil /\ last.op = "GetUsersForGroup")
                => IF params.AllowSearchUsersByGroup
                   THEN /\ RespOK(last.env.list)
                        /\ Len(last.out.resp.Users) = Len(last.env.list.value.Resources)
                   ELSE /\ RespOK(last.env.group)
                        /\ Len(last.out.resp.Users) = Len(last.env.group.value.Members)

C8_Witness ==
    /\ last.op = "GetGroupsForUser"
    /\ last.out.sent # <<>>
    /\ RespOK(last.env)
    /\ Len(last.env.value.Resources) = 2
    /\ last.out.err = NoErr
    /\ Len(last.out.resp.Groups) = 2

\* C9 as stated: GetAllGroups on a plugin for which no Configure has succeeded
\* returns ErrNoScimClient as an error value and makes no SCIM call.
C9_GetAllGroupsNoClient ==
    (~everConfigured /\ last.op = "GetAllGroups")
        => /\ ~last.out.panic
           /\ last.out.err = ErrNoScimClient
           /\ last.out.calls = <<>>

ClientOps == {"Client.GetUser", "Client.ListUsers", "Client.GetGroup", "Client.ListGroups"}
ClientListOps == {"Client.ListUsers", "Client.ListGroups"}

Marker(op) ==
    CASE op = "Client.GetUser" -> ErrGetUser
      [] op = "Client.ListUsers" -> ErrListUsers
      [] op = "Client.GetGroup" -> ScimErrGetGroup
      [] op = "Client.ListGroups" -> ErrListGroups

\* the cause the call in last must fail with, NoErr when nothing fails: the
\* request cannot be built (no filter for a search body, a method or URL the
\* request constructor rejects), cannot be sent, is answered with a status
\* other than 200, or with a body that is not valid JSON
ExpectedCause ==
    IF last.op \in ClientListOps /\ last.req.method \in {MethodPost, MethodPut, MethodPatch}
          /\ last.req.filter \in {NilFilter, NullFilterExpression}
    THEN ErrNoFilter
    ELSE IF (last.op \in ClientListOps /\ last.req.method = InvalidMethod)
            \/ scimClient.host = UnparsableHost
    THEN ErrNewRequest
    ELSE IF last.env.kind = "senderr" THEN ErrTransport
    ELSE IF last.env.status # StatusOK THEN ErrUnexpectedStatusCode
    ELSE IF ~last.env.valid THEN ErrJSONDecode
    ELSE NoErr

\* C10: every failure of a SCIM client operation is returned with a nil result
\* and an error whose chain holds the operation's own marker and the
\* underlying cause; without a failure the decoded body is returned with no
\* error.
C10_ClientFailureUnderMarker ==
    last.op \in ClientOps
        => /\ ~last.out.panic
           /\ IF ExpectedCause # NoErr
              THEN /\ last.out.result = Nil
                   /\ Marker(last.op) \subseteq last.out.err
                   /\ ExpectedCause \subseteq last.out.err
              ELSE /\ last.out.err = NoErr
                   /\ last.out.result = last.env.value

C10_Witness ==
    /\ last.op = "Client.GetGroup"
    /\ last.env.kind = "resp"
    /\ last.env.status = StatusNotFound
    /\ ScimErrGetGroup \subseteq last.out.err
    /\ ErrUnexpectedStatusCode \subseteq last.out.err
    /\ last.out.result = Nil

PluginMarker(op) ==
    CASE op = "GetGroup" -> ErrGetGroup
      [] op = "GetAllGroups" -> ErrGetAllGroups
      [] op = "GetUsersForGroup" -> ErrGetUsersForGroup
      [] op = "GetGroupsForUser" -> ErrGetGroupsForUser

CallMarker(call) ==
    CASE call.op = "GetUser" -> ErrGetUser
      [] call.op = "ListUsers" -> ErrListUsers
      [] call.op = "GetGroup" -> ScimErrGetGroup
      [] call.op = "ListGroups" -> ErrListGroups

\* the last SCIM client call of the plugin call in last, and the outcome its
\* exchange met
LastCall == last.out.calls[Len(last.out.calls)]

LastCallOutcome ==
    IF last.op # "GetUsersForGroup" THEN last.env
    ELSE IF LastCall.op = "ListUsers" THEN last.env.list
    ELSE IF LastCall.op = "GetGroup" THEN last.env.group
    ELSE last.env.users[Len(last.out.calls) - 1]

\* the cause that call must fail with, NoErr when nothing fails
LastCallCause ==
    IF LastCall.op \in {"ListUsers", "ListGroups"} /\ IsWriteMethod(LastCall.method)
          /\ LastCall.filter \in {NilFilter, NullFilterExpression}
    THEN ErrNoFilter
    ELSE IF (LastCall.op \in {"ListUsers", "ListGroups"} /\ LastCall.method = InvalidMethod)
            \/ scimClient.host = UnparsableHost
    THEN ErrNewRequest
    ELSE IF LastCallOutcome.kind = "senderr" THEN ErrTransport
    ELSE IF LastCallOutcome.status # StatusOK THEN ErrUnexpectedStatusCode
    ELSE IF ~LastCallOutcome.valid THEN ErrJSONDecode
    ELSE NoErr

\* C11: when a SCIM client call made by a plugin operation fails, the error
\* the operation returns holds, in its chain, the operation's marker, the
\* client marker of the call that failed and the underlying cause, and no
\* response is returned.
C11_PluginErrorKeepsChain ==
    (last.op \in PluginOps /\ ~last.out.panic /\ last.out.calls # <<>>
       /\ LastCallCause # NoErr)
        => /\ last.out.resp = Nil
           /\ PluginMarker(last.op) \subseteq last.out.err
           /\ CallMarker(LastCall) \subseteq last.out.err
           /\ LastCallCause \subseteq last.out.err

C11_Witness ==
    /\ last.op = "GetUsersForGroup"
    /\ ~last.out.panic
    /\ Len(last.out.calls) = 1
    /\ LastCall.op = "ListUsers"
    /\ last.env.list.kind = "senderr"
    /\ ErrGetUsersForGroup \subseteq last.out.err
    /\ ErrListUsers \subseteq last.out.err
    /\ ErrTransport \subseteq last.out.err

\* C12: an invocation of GetUser, GetGroup, ListUsers or ListGroups hands at
\* most one request to the HTTP client; when the exchange of that request
\* fails in the transport (connection failure, cancelled or timed-out context),
\* the operation returns no result and an error under its marker, having sent
\* that one request only.
C12_AtMostOneRequestNoRetry ==
    last.op \in ClientOps
        => /\ Len(last.out.sent) <= 1
           /\ (last.env.kind = "senderr" /\ last.out.sent # <<>>)
                => /\ Len(last.out.sent) = 1
                   /\ last.out.result = Nil
                   /\ Marker(last.op) \subseteq last.out.err
                   /\ ErrTransport \subseteq last.out.err

C12_Witness ==
    /\ last.op = "Client.ListGroups"
    /\ last.env.kind = "senderr"
    /\ Len(last.out.sent) = 1
    /\ last.out.result = Nil
    /\ ErrListGroups \subseteq last.out.err

\* the client operation op applied to request req when its exchange ends in out
RunClientOp(op, c, req, out) ==
    CASE op = "Client.GetUser" -> ClientGetUser(c, req.id, out)
      [] op = "Client.GetGroup" -> ClientGetGroup(c, req.id, out)
      [] op = "Client.ListUsers" ->
            ClientListUsers(c, req.method, req.filter, req.cursor, req.count, out)
      [] op = "Client.ListGroups" ->
            ClientListGroups(c, req.method, req.filter, req.cursor, req.count, out)

\* the call in last obtained an HTTP response
ResponseObtained == last.out.sent # <<>> /\ last.env.kind = "resp"

\* C13: a client operation that obtained a response has closed its body
\* exactly once when it returns, whether decoding succeeded or failed, and has
\* closed nothing when it obtained none; a failing close is logged and the
\* operation returns the result and the error it returns when the close
\* succeeds.
C13_BodyClosedExactlyOnce ==
    last.op \in ClientOps
        => /\ last.out.closes = (IF ResponseObtained THEN 1 ELSE 0)
           /\ LET clean == RunClientOp(last.op, scimClient, last.req,
                                       [last.env EXCEPT !.closeErr = FALSE])
              IN  /\ last.out.result = clean.result
                  /\ last.out.err = clean.err
           /\ (last.out.log # <<>>) = (ResponseObtained /\ last.env.closeErr)

C13_Witness ==
    /\ last.op = "Client.GetUser"
    /\ ResponseObtained
    /\ last.env.status = StatusOK
    /\ ~last.env.valid
    /\ last.env.closeErr
    /\ last.out.closes = 1
    /\ last.out.result = Nil
    /\ ErrJSONDecode \subseteq last.out.err

\* C14: with a nil or null filter, building the search body yields no body
\* and the "filter not provided" error, for every cursor and count, so a list
\* operation called with a write method sends nothing and fails with that
\* error; building the query string yields a query without a filter key, which
\* holds exactly the cursor and the count that were given, and that is the
\* query of the request sent.
C14_NullFilterBodyFailsQueryOmits ==
    (last.op \in ClientListOps /\ last.req.filter \in {NilFilter, NullFilterExpression})
        => LET b == buildBodyFromParams(last.req.filter, last.req.count, last.req.cursor)
               q == buildQueryStringFromParams(last.req.filter, last.req.cursor, last.req.count)
           IN  /\ b.body = Nil
               /\ b.err = ErrNoFilter
               /\ \A kv \in q : kv[1] # "filter"
               /\ \A kv \in q : \/ (kv[1] = "cursor" /\ last.req.cursor = <<kv[2]>>)
                                 \/ (kv[1] = "count" /\ last.req.count = <<kv[2]>>)
               /\ IF IsWriteMethod(last.req.method)
                  THEN /\ last.out.sent = <<>>
                       /\ last.out.result = Nil
                       /\ ErrNoFilter \subseteq last.out.err
                  ELSE \A i \in 1..Len(last.out.sent) :
                         /\ last.out.sent[i].query = q
                         /\ last.out.sent[i].body = Nil

C14_Witness ==
    /\ last.op = "Client.ListUsers"
    /\ last.req.filter = NullFilterExpression
    /\ last.req.method = MethodPost
    /\ last.req.cursor # NilPtr
    /\ last.req.count # NilPtr
    /\ last.out.sent = <<>>
    /\ ErrNoFilter \subseteq last.out.err

\* C15 as stated: NewClient called with an empty client id fails and returns
\* no client, whatever the host, the secret and the TLS material are, and in
\* basic mode the error is the client-id error.
C15_EmptyClientIdFails ==
    (last.op = "NewClient" /\ last.req.auth.Username = "")
        => /\ last.out.result = Nil
           /\ last.out.err # NoErr
           /\ (last.req.auth.Type = BasicSecretType => ErrClientID \subseteq last.out.err)

\* C16: NewClient returns a client and no error, or an error and no client.
\* A returned client holds one authentication material: for the basic type
\* the basic credentials and no client-certificate transport, for the mTLS
\* type the client-certificate transport and no basic credentials.  Any other
\* type fails with ErrAuthNotImplemented.  The client in use is always of one
\* of the two kinds.
C16_OneAuthMaterial ==
    /\ scimClient # Nil => (scimClient.basicAuth # Nil) # scimClient.mtls
    /\ last.op = "NewClient"
         => LET c == last.out.result
                type == last.req.auth.Type
            IN  /\ (c = Nil) = (last.out.err # NoErr)
                /\ c # Nil =>
                      /\ c = scimClient
                      /\ c.host = last.req.host
                      /\ type \in {BasicSecretType, MTLSSecretType}
                      /\ type = BasicSecretType =>
                            /\ c.basicAuth = [clientID |-> last.req.auth.Username,
                                              clientSecret |-> last.req.auth.Password]
                            /\ ~c.mtls
                      /\ type = MTLSSecretType => (c.basicAuth = Nil /\ c.mtls)
                /\ type \notin {BasicSecretType, MTLSSecretType}
                      => (c = Nil /\ last.out.err = ErrAuthNotImplemented)

C16_Witness ==
    /\ last.op = "NewClient"
    /\ last.req.auth.Type = MTLSSecretType
    /\ last.out.err = NoErr
    /\ last.out.result # Nil
    /\ last.out.result.mtls
    /\ last.out.result.basicAuth = Nil

\* C17 as stated: every request sent by a client built in basic mode carries
\* one Authorization header, "Basic " followed by the base64 encoding (RFC
\* 4648 section 4, as RFC 7617 prescribes: the standard alphabet, padded with
\* "=") of <client id>:<client secret>, whatever the length of id:secret is;
\* a request sent by a client built in mTLS mode carries no Authorization
\* header.
C17_BasicAuthorizationHeader ==
    last.op \in ClientOps
        => \A i \in 1..Len(last.out.sent) :
             LET authorization ==
                     {kv \in last.out.sent[i].header : kv[1] = HeaderAuthorization}
                 creds == Bytes(scimClient.basicAuth.clientID) \o Bytes(":")
                              \o Bytes(scimClient.basicAuth.clientSecret)
             IN  IF scimClient.basicAuth # Nil
                 THEN authorization =
                          {<<HeaderAuthorization, "Basic " \o EncodeToString(StdEncoding, creds)>>}
                 ELSE authorization = {}

\* the values the header name has in the request
HeaderValues(request, name) == {kv[2] : kv \in {x \in request.header : x[1] = name}}

\* C18: every request the client sends has the Accept header with the value
\* application/scim+json; it has the Content-Type header, with that value,
\* when its method is POST, PUT or PATCH, and no Content-Type header
\* otherwise.
C18_AcceptAlwaysContentTypeOnWrite ==
    last.op \in ClientOps
        => \A i \in 1..Len(last.out.sent) :
             LET request == last.out.sent[i]
             IN  /\ HeaderValues(request, "Accept") = {"application/scim+json"}
                 /\ HeaderValues(request, "Content-Type") =
                        (IF request.method \in {"POST", "PUT", "PATCH"}
                         THEN {"application/scim+json"}
                         ELSE {})

C18_Witness ==
    /\ last.op = "Client.ListUsers"
    /\ Len(last.out.sent) = 1
    /\ last.out.sent[1].method = "PUT"
    /\ HeaderValues(last.out.sent[1], "Content-Type") = {"application/scim+json"}
    /\ HeaderValues(last.out.sent[1], "Accept") = {"application/scim+json"}

\* the filter string a list request must carry for the filter given
ExpectedFilterString(filter) ==
    IF filter = FilterComparison("displayName", FilterOperatorEqual, "None")
    THEN "displayName eq \"None\""
    ELSE ""

\* C19: a request sent by ListUsers (ListGroups) for a method that is POST,
\* PUT or PATCH has that method, the URL {host}/Users/.search
\* ({host}/Groups/.search), an empty query and as body the SearchRequest with
\* the fixed schema URN, the filter string, the count and the cursor; for any
\* other method, GET and the empty method (sent as GET) among them, it has
\* the URL {host}/Users/ ({host}/Groups/), no body, and the cursor, the count
\* and the filter (when there is one) in the query.
C19_ListRequestTarget ==
    last.op \in ClientListOps
        => \A i \in 1..Len(last.out.sent) :
             LET request == last.out.sent[i]
                 req == last.req
                 base == IF last.op = "Client.ListUsers" THEN "/Users" ELSE "/Groups"
             IN  IF req.method \in {"POST", "PUT", "PATCH"}
                 THEN /\ request.method = req.method
                      /\ request.url = scimClient.host \o base \o "/.search"
                      /\ request.query = {}
                      /\ request.body =
                            [Schemas |-> <<"urn:ietf:params:scim:api:messages:2.0:SearchRequest">>,
                             Filter |-> ExpectedFilterString(req.filter),
                             Count |-> req.count, Cursor |-> req.cursor]
                 ELSE /\ request.method = (IF req.method = "" THEN "GET" ELSE req.method)
                      /\ request.url = scimClient.host \o base \o "/"
                      /\ request.body = Nil
                      /\ request.query =
                            {<<"cursor", req.cursor[k]>> : k \in 1..Len(req.cursor)}
                            \cup {<<"count", req.count[k]>> : k \in 1..Len(req.count)}
                            \cup (IF req.filter \in {NilFilter, NullFilterExpression}
                                  THEN {}
                                  ELSE {<<"filter", ExpectedFilterString(req.filter)>>})

C19_Witness ==
    /\ last.op = "Client.ListUsers"
    /\ last.req.method = MethodPost
    /\ last.req.cursor # NilPtr
    /\ Len(last.out.sent) = 1
    /\ last.out.sent[1].url = "https://scim.example/Users/.search"
    /\ last.out.sent[1].body.Filter = "displayName eq \"None\""
    /\ last.out.err = NoErr

ClaimedString(f) ==
    LET children == [i \in 1..Len(f.Expressions) |-> FilterToString(f.Expressions[i])]
    IN  CASE f.kind = "cmp" -> f.Attribute \o " " \o f.Operator \o " \"" \o f.Value \o "\""
          [] f.kind = "and" -> "(" \o Join(children, " and ") \o ")"
          [] f.kind = "or" -> "(" \o Join(children, " or ") \o ")"
          [] f.kind = "not" -> "not " \o FilterToString(f.Expression)
          [] f.kind = "null" -> ""

\* the expression and the expressions in it
RECURSIVE SubExpressions(_)
SubExpressions(f) ==
    {f} \cup (CASE f.kind \in {"and", "or"} ->
                    UNION {SubExpressions(f.Expressions[i]) : i \in 1..Len(f.Expressions)}
               [] f.kind = "not" -> SubExpressions(f.Expression)
               [] OTHER -> {})

\* C21: every call of ToString on a filter expression, the first and the
\* second, returns the string built from the strings of the children: a
\* comparison gives attribute, operator and the quoted value; And and Or give
\* the children's strings in list order joined by " and " / " or " inside one
\* pair of parentheses, a single child included; Not gives "not " and the
\* child's string; the null filter gives the empty string.  This holds of the
\* expression and of every expression in it.
C21_ToStringStructural ==
    last.op = "ToString"
        => /\ \A i \in 1..Len(last.out) : last.out[i] = ClaimedString(last.req)
           /\ \A f \in SubExpressions(last.req) : FilterToString(f) = ClaimedString(f)
           /\ (last.req.kind \in {"and", "or"} /\ Len(last.req.Expressions) = 1)
                => \A i \in 1..Len(last.out) :
                      last.out[i] = "(" \o FilterToString(last.req.Expressions[1]) \o ")"

C21_Witness ==
    /\ last.op = "ToString"
    /\ last.req = FilterLogicalGroupAnd(
                      << FilterComparison("name", FilterOperatorEqual, "John"),
                         FilterLogicalGroupOr(
                             << FilterComparison("group", FilterOperatorEqual, "CMK"),
                                FilterComparison("name", FilterOperatorEqual, "John") >>) >>)
    /\ last.out = << "(name eq \"John\" and (group eq \"CMK\" or name eq \"John\"))",
                     "(name eq \"John\" and (group eq \"CMK\" or name eq \"John\"))" >>

\* the filter of a sent list request: in the search body of a write method,
\* else under the filter key of the query; None when the request has none
SentFilter(request) ==
    IF IsWriteMethod(request.method)
    THEN request.body.Filter
    ELSE IF \E kv \in request.query : kv[1] = "filter"
    THEN (CHOOSE kv \in request.query : kv[1] = "filter")[2]
    ELSE None

MaxConcurrent == 2

\* the clients the requests share: with basic credentials, for mTLS, and one
\* whose host does not parse
SharedClients ==
    { NewClient(GoodHost, [Type |-> BasicSecretType, Username |-> "id", Password |-> "pw",
                           MTLSLoads |-> FALSE]).client,
      NewClient(GoodHost, [Type |-> MTLSSecretType, Username |-> "", Password |-> "",
                           MTLSLoads |-> TRUE]).client,
      NewClient(UnparsableHost, [Type |-> BasicSecretType, Username |-> "u", Password |-> "pw",
                                 MTLSLoads |-> FALSE]).client }

\* the calls made on the shared client
SharedCalls ==
    { [op |-> "Client.GetUser", id |-> "u1"],
      [op |-> "Client.GetGroup", id |-> "g1"],
      [op |-> "Client.ListUsers", method |-> MethodPost, cursor |-> NilPtr, count |-> NilPtr,
       filter |-> FilterComparison("displayName", FilterOperatorEqual, "None")],
      [op |-> "Client.ListGroups", method |-> MethodGet, cursor |-> <<"c1">>, count |-> <<10>>,
       filter |-> NullFilterExpression],
      [op |-> "Client.ListGroups", method |-> MethodPost, cursor |-> NilPtr, count |-> NilPtr,
       filter |-> NullFilterExpression] }

\* the outcomes the exchange of a call can end in
SharedOutcomes(q) ==
    CASE q.op = "Client.GetUser" ->
            HTTPOutcomes({[ID |-> "u1", UserName |-> "un-u1", DisplayName |-> "dn-u1",
                           Emails |-> <<>>]})
      [] q.op = "Client.GetGroup" ->
            HTTPOutcomes({[ID |-> "g1", DisplayName |-> "dn-g1", Members |-> <<[Value |-> "u1"]>>]})
      [] q.op = "Client.ListUsers" -> HTTPOutcomes({[Resources |-> <<>>]})
      [] q.op = "Client.ListGroups" ->
            HTTPOutcomes({[Resources |-> <<[ID |-> "g2", DisplayName |-> "dn-g2",
                                            Members |-> <<>>]>>]})

\* as createRequest, the URL of the request kept in the host of the receiver
createRequest_KeepsURL(c, resourcePath) ==
    [receiver |-> [c EXCEPT !.host = c.host \o resourcePath], host |-> c.host]

\* the first step of a client operation, up to http.NewRequestWithContext: it
\* reads the host of the receiver and leaves the receiver as it is
createRequest(c, resourcePath) ==
    [receiver |-> c, host |-> c.host]

\* the path of the resource a call asks for
SharedResourcePath(q) ==
    CASE q.op = "Client.GetUser" -> BasePathUsers \o "/" \o q.id
      [] q.op = "Client.GetGroup" -> BasePathGroups \o "/" \o q.id
      [] q.op = "Client.ListUsers" -> BasePathUsers \o "/"
      [] q.op = "Client.ListGroups" -> BasePathGroups \o "/"

\* the request of call q made and sent by a client of the fields c, the
\* exchange ending in out
executeRequest(c, q, out) ==
    CASE q.op = "Client.GetUser" ->
            baseCreateAndExecuteHTTPRequest(c, MethodGet, SharedResourcePath(q), NilPtr, Nil, out)
      [] q.op = "Client.GetGroup" ->
            baseCreateAndExecuteHTTPRequest(c, MethodGet, SharedResourcePath(q), NilPtr, Nil, out)
      [] q.op = "Client.ListUsers" ->
            createAndExecuteHTTPRequest(c, q.method, BasePathUsers, q.filter, q.cursor, q.count, out)
      [] q.op = "Client.ListGroups" ->
            createAndExecuteHTTPRequest(c, q.method, BasePathGroups, q.filter, q.cursor, q.count, out)

\* a call in flight: where it is (pc), the host it read when it made its
\* request, what its request ended in (r) and what it returned (ret)
SharedStart == [pc |-> "start", host |-> None, r |-> Nil, ret |-> Nil]

\* last.req holds the client as constructed and the calls, last.env the
\* outcome of each call's exchange, last.out each call in flight
InitShared ==
    /\ scimClient \in SharedClients
    /\ params = ZeroParams
    /\ everConfigured = FALSE
    /\ configureFailed = FALSE
    /\ \E calls \in [1..MaxConcurrent -> SharedCalls] :
         last = [op |-> "shared", req |-> [client |-> scimClient, calls |-> calls],
                 env |-> [k \in 1..MaxConcurrent |-> SendFails],
                 out |-> [k \in 1..MaxConcurrent |-> SharedStart]]

\* call k makes its request; a request that cannot be made (the search body
\* is refused, the URL does not parse) ends the exchange without sending
SharedCreate ==
    /\ last.op = "shared"
    /\ \E k \in 1..MaxConcurrent :
         /\ last.out[k].pc = "start"
         /\ LET q == last.req.calls[k]
                cr == createRequest(scimClient, SharedResourcePath(q))
                r == executeRequest([scimClient EXCEPT !.host = cr.host], q, SendFails)
            IN  /\ scimClient' = cr.receiver
                /\ last' = [last EXCEPT !.out[k] =
                              IF r.sent = <<>>
                              THEN [pc |-> "exchanged", host |-> cr.host, r |-> r, ret |-> Nil]
                              ELSE [pc |-> "created", host |-> cr.host, r |-> Nil, ret |-> Nil]]
    /\ UNCHANGED <<params, everConfigured, configureFailed>>

\* doRequest of call k: the headers are set from the credentials of the
\* receiver, the request is sent and the exchange ends in out
SharedDo ==
    /\ last.op = "shared"
    /\ \E k \in 1..MaxConcurrent :
         /\ last.out[k].pc = "created"
         /\ \E out \in SharedOutcomes(last.req.calls[k]) :
              last' = [last EXCEPT
                         !.env[k] = out,
                         !.out[k] = [pc |-> "exchanged", host |-> last.out[k].host,
                                     r |-> executeRequest(
                                               [scimClient EXCEPT !.host = last.out[k].host],
                                               last.req.calls[k], out),
                                     ret |-> Nil]]
    /\ UNCHANGED <<scimClient, params, everConfigured, configureFailed>>

\* call k decodes the response, closes its body and returns
SharedReturn ==
    /\ last.op = "shared"
    /\ \E k \in 1..MaxConcurrent :
         /\ last.out[k].pc = "exchanged"
         /\ last' = [last EXCEPT
                       !.out[k] = [pc |-> "returned", host |-> last.out[k].host,
                                   r |-> last.out[k].r,
                                   ret |-> FinishOp(Marker(last.req.calls[k].op), last.out[k].r)]]
    /\ UNCHANGED <<scimClient, params, everConfigured, configureFailed>>

NextShared ==
    \/ SharedCreate
    \/ SharedDo
    \/ SharedReturn

SpecShared == InitShared /\ [][NextShared]_vars

\* C23: with several calls in flight on one client, in every interleaving of
\* their steps, the client keeps the fields it was constructed with, and a
\* call that has returned has returned the result, the error and the sent
\* request that the same operation yields when it runs alone on the client as
\* constructed and its exchange ends in the same outcome.
C23_SharedClientUnchangedCallsIndependent ==
    last.op = "shared"
        => /\ scimClient = last.req.client
           /\ \A k \in 1..MaxConcurrent :
                 last.out[k].pc = "returned"
                    => last.out[k].ret
                         = RunClientOp(last.req.calls[k].op, last.req.client,
                                       last.req.calls[k], last.env[k])

C23_Witness ==
    /\ last.op = "shared"
    /\ scimClient.basicAuth # Nil
    /\ last.req.calls[1].op = "Client.ListUsers"
    /\ last.req.calls[2].op = "Client.GetGroup"
    /\ last.out[1].pc = "returned"
    /\ last.out[1].ret.err = NoErr
    /\ Len(last.out[1].ret.sent) = 1
    /\ last.out[2].pc = "created"

\* C24: a GetUsersForGroup call that searched the users directly and
\* succeeded returns one user for each resource of the list response, in the
\* order of the response, with the Id of the resource as Id and the
\* displayName of the resource as Name; an empty list response gives an empty
\* list of users and no error.
C24_DirectSearchProjectsDisplayName ==
    (/\ last.op = "GetUsersForGroup"
     /\ ~last.out.panic
     /\ last.out.err = NoErr
     /\ params.AllowSearchUsersByGroup)
        => LET resources == last.env.list.value.Resources
               users == last.out.resp.Users
           IN  /\ Len(users) = Len(resources)
               /\ \A i \in 1..Len(resources) :
                     /\ users[i].Id = resources[i].ID
                     /\ users[i].Name = resources[i].DisplayName

\* C25: a Configure call that returns an error leaves the client and the
\* params of the plugin as they were before the call, whether or not an
\* earlier Configure succeeded: a Configure that fails when the client is
\* constructed does not install its params next to the client of before.
C25_FailedConfigureChangesNothing ==
    [][(last.op = "idle" /\ last'.op = "Configure" /\ last'.out.err # NoErr)
          => (scimClient' = scimClient /\ params' = params)]_vars

\* ------------------- a resolution operation next to a running Configure

\* the requests of the earlier and of the running Configure
ReconfigureRequests ==
    { req \in ConfigureRequests :
        /\ req.yamlOK
        /\ req.cfg.Host = GoodHost
        /\ req.cfg.Auth.Type \in {BasicSecretType, OAuth2SecretType}
        /\ req.cfg.Auth.Username # Unloadable /\ req.cfg.Auth.Password # Unloadable
        /\ req.cfg.Params.GroupAttribute = req.cfg.Params.UserAttribute
        /\ req.cfg.Params.GroupMembersAttribute = "members"
        /\ req.cfg.Params.ListMethod \in {"", MethodGet}
        /\ req.cfg.Params.AllowSearchUsersByGroup \in {"true", "false"} }

\* the plugin before the running Configure: as constructed, or as an earlier
\* Configure left it; from: 0 for the values of the constructor, 1 for those
\* of the earlier Configure
ReconfigurePlugins ==
    { [scimClient |-> Nil, params |-> ZeroParams, from |-> 0] }
    \cup { [scimClient |-> Configure([scimClient |-> Nil, params |-> ZeroParams], req).scimClient,
            params |-> Configure([scimClient |-> Nil, params |-> ZeroParams], req).params,
            from |-> 1] :
             req \in {r \in ReconfigureRequests :
                        /\ r.cfg.Auth.Type = BasicSecretType
                        /\ r.cfg.Params.GroupAttribute = "attr"
                        /\ r.cfg.Params.ListMethod = ""
                        /\ r.cfg.Params.AllowSearchUsersByGroup = "false"} }

\* the resolution calls that meet the running Configure, each answered with
\* one resource
ReconfigureCalls ==
    LET groups == [kind |-> "resp", status |-> StatusOK, valid |-> TRUE, closeErr |-> FALSE,
                   value |-> [Resources |-> <<[ID |-> "g1", DisplayName |-> "dn-g1",
                                               Members |-> <<>>]>>]]
        users == [kind |-> "resp", status |-> StatusOK, valid |-> TRUE, closeErr |-> FALSE,
                  value |-> [Resources |-> <<[ID |-> "u1", UserName |-> "un-u1",
                                              DisplayName |-> "dn-u1", Emails |-> <<>>]>>]]
        group == [kind |-> "resp", status |-> StatusOK, valid |-> TRUE, closeErr |-> FALSE,
                  value |-> [ID |-> "g1", DisplayName |-> "dn-g1", Members |-> <<>>]]
    IN  { [op |-> "GetGroup", request |-> [GroupName |-> "g1"], env |-> groups],
          [op |-> "GetAllGroups", request |-> Nil, env |-> groups],
          [op |-> "GetUsersForGroup", request |-> [GroupId |-> "g1"],
           env |-> [list |-> users, group |-> group, users |-> <<>>]],
          [op |-> "GetGroupsForUser", request |-> [UserId |-> "u1"], env |-> groups] }

\* the operation of call q on the plugin p
RunPluginOp(p, q) ==
    CASE q.op = "GetGroup" -> GetGroup(p, q.request, q.env)
      [] q.op = "GetAllGroups" -> GetAllGroups(p, q.request, q.env)
      [] q.op = "GetUsersForGroup" -> GetUsersForGroup(p, q.request, q.env)
      [] q.op = "GetGroupsForUser" -> GetGroupsForUser(p, q.request, q.env)

\* last.req: the request of the running Configure and the resolution call;
\* last.out: where Configure is (configure: "start", "paramsSet",
\* "returned"), which Configure the fields of the plugin come from
\* (paramsFrom, clientFrom: 2 for the running one), where the resolution call
\* is (pc: "start", "checked", "read", "returned"), the params it read and
\* which Configure its params and its client came from (-1 before it has
\* them), and what it returned
InitReconfigure ==
    /\ everConfigured = FALSE
    /\ configureFailed = FALSE
    /\ \E p \in ReconfigurePlugins, req \in ReconfigureRequests, q \in ReconfigureCalls :
         /\ scimClient = p.scimClient
         /\ params = p.params
         /\ last = [op |-> "reconfigure", req |-> [configure |-> req, call |-> q], env |-> Nil,
                    out |-> [configure |-> "start", err |-> NoErr,
                             paramsFrom |-> p.from, clientFrom |-> p.from,
                             pc |-> "start", readParams |-> Nil,
                             readParamsFrom |-> -1, usedClientFrom |-> -1,
                             ret |-> Nil, panic |-> FALSE]]

\* Configure up to the assignment of p.params
ConfigureSetParams ==
    /\ last.op = "reconfigure"
    /\ last.out.configure = "start"
    /\ LET lp == LoadParams(last.req.configure.cfg)
       IN  IF lp.err # NoErr
           THEN /\ last' = [last EXCEPT !.out.configure = "returned", !.out.err = lp.err]
                /\ UNCHANGED params
           ELSE /\ params' = lp.params
                /\ last' = [last EXCEPT !.out.configure = "paramsSet", !.out.paramsFrom = 2]
    /\ UNCHANGED <<scimClient, everConfigured, configureFailed>>

\* Configure from scim.NewClient on
ConfigureSetClient ==
    /\ last.op = "reconfigure"
    /\ last.out.configure = "paramsSet"
    /\ LET c == NewClient(last.req.configure.cfg.Host, last.req.configure.cfg.Auth)
       IN  IF c.err # NoErr
           THEN /\ last' = [last EXCEPT !.out.configure = "returned", !.out.err = c.err]
                /\ UNCHANGED scimClient
           ELSE /\ scimClient' = c.client
                /\ last' = [last EXCEPT !.out.configure = "returned", !.out.clientFrom = 2]
    /\ UNCHANGED <<params, everConfigured, configureFailed>>

\* the check of p.scimClient against nil, which GetAllGroups does not make
CallCheckClient ==
    /\ last.op = "reconfigure"
    /\ last.out.pc = "start"
    /\ last.req.call.op # "GetAllGroups"
    /\ last' = IF scimClient = Nil
               THEN [last EXCEPT !.out.pc = "returned",
                                 !.out.ret = OpReturn(Nil, ErrNoScimClient, <<>>, <<>>)]
               ELSE [last EXCEPT !.out.pc = "checked"]
    /\ UNCHANGED <<scimClient, params, everConfigured, configureFailed>>

\* the read of the attributes and the flag in p.params
CallReadParams ==
    /\ last.op = "reconfigure"
    /\ \/ last.out.pc = "checked"
       \/ last.out.pc = "start" /\ last.req.call.op = "GetAllGroups"
    /\ last' = [last EXCEPT !.out.pc = "read", !.out.readParams = params,
                            !.out.readParamsFrom = last.out.paramsFrom]
    /\ UNCHANGED <<scimClient, params, everConfigured, configureFailed>>

\* the call on p.scimClient with the list method of p.params, and what the
\* operation makes of its result
CallUseClient ==
    /\ last.op = "reconfigure"
    /\ last.out.pc = "read"
    /\ LET r == RunPluginOp([scimClient |-> scimClient,
                             params |-> [last.out.readParams EXCEPT
                                           !.ListMethod = params.ListMethod]],
                            last.req.call)
       IN  last' = [last EXCEPT !.out.pc = "returned", !.out.ret = r, !.out.panic = r.panic,
                                !.out.usedClientFrom = last.out.clientFrom]
    /\ UNCHANGED <<scimClient, params, everConfigured, configureFailed>>

NextReconfigure ==
    \/ ConfigureSetParams
    \/ ConfigureSetClient
    \/ CallCheckClient
    \/ CallReadParams
    \/ CallUseClient

SpecReconfigure == InitReconfigure /\ [][NextReconfigure]_vars

\* C26: a resolution operation that runs while Configure runs uses params
\* and a client that come from the same Configure call: it never uses the
\* params of the running Configure with the client of an earlier one, and
\* never params of the running Configure with no client.
C26_CallSeesOneConfigure ==
    (last.op = "reconfigure" /\ last.out.usedClientFrom # -1)
        => last.out.usedClientFrom = last.out.readParamsFrom

\* the i-th SCIM call of a membership traversal fails: the fetch of the group
\* for i = 1, the fetch of member i - 1 after it
TraversalCallFails(i) ==
    \/ ~UrlParses(scimClient.host)
    \/ IF i = 1 THEN ~RespOK(last.env.group) ELSE ~RespOK(last.env.users[i - 1])

\* C27: in a membership traversal the first SCIM call that fails is the last
\* call and the last request of the invocation: after a failed group fetch no
\* user is fetched, after a failed fetch of member k no later member is
\* fetched; the calls before it are the group fetch and the fetches of the
\* members before k, in order.
C27_FirstFailureIsLastCall ==
    (/\ last.op = "GetUsersForGroup"
     /\ scimClient # Nil
     /\ ~params.AllowSearchUsersByGroup
     /\ last.req.GroupId # "")
        => \A i \in 1..(NumMembers(last.env.group) + 1) :
              (TraversalCallFails(i) /\ \A j \in 1..(i - 1) : ~TraversalCallFails(j))
                 => /\ Len(last.out.calls) = i
                    /\ last.out.calls[1].op = "GetGroup"
                    /\ \A j \in 2..i :
                          /\ last.out.calls[j].op = "GetUser"
                          /\ last.out.calls[j].id = last.env.group.value.Members[j - 1].Value
                    /\ Len(last.out.sent) = IF UrlParses(scimClient.host) THEN i ELSE 0
                    /\ last.out.err # NoErr
                    /\ Marker(IF i = 1 THEN "Client.GetGroup" ELSE "Client.GetUser")
                          \subseteq last.out.err

C27_Witness ==
    /\ last.op = "GetUsersForGroup"
    /\ scimClient # Nil
    /\ ~params.AllowSearchUsersByGroup
    /\ RespOK(last.env.group)
    /\ Len(last.env.users) = 2
    /\ ~RespOK(last.env.users[1])
    /\ RespOK(last.env.users[2])
    /\ Len(last.out.calls) = 2
    /\ Len(last.out.sent) = 2
    /\ last.out.sent[2].url = scimClient.host \o "/Users/" \o last.env.group.value.Members[1].Value

\* C28: on a configured plugin GetGroup with the empty group name makes no
\* SCIM client call and sends no request, whatever the server would answer,
\* and returns no response and an error whose chain holds ErrGetGroup and
\* ErrNoID and does not hold ErrGetGroupNonExistent.
C28_BlankGroupNameIsNoID ==
    (scimClient # Nil /\ last.op = "GetGroup" /\ last.req.GroupName = "")
        => /\ ~last.out.panic
           /\ last.out.calls = <<>>
           /\ last.out.sent = <<>>
           /\ last.out.resp = Nil
           /\ ErrGetGroup \subseteq last.out.err
           /\ ErrNoID \subseteq last.out.err
           /\ ErrGetGroupNonExistent \cap last.out.err = {}

C28_Witness ==
    /\ scimClient # Nil
    /\ last.op = "GetGroup"
    /\ last.req.GroupName = ""
    /\ params.GroupAttribute = "attr"
    /\ RespOK(last.env)
    /\ last.env.value.Resources = <<>>
    /\ last.out.err = ErrGetGroup \cup ErrNoID
    /\ last.out.sent = <<>>

\* the call in last is one that reaches its list call: the operation's checks
\* of the client, the id and the group attribute have passed
ReachesListCall ==
    \/ last.op = "GetAllGroups"
    \/ scimClient # Nil /\ last.op = "GetGroup" /\ last.req.GroupName # ""
    \/ scimClient # Nil /\ last.op = "GetGroupsForUser" /\ last.req.UserId # ""
    \/ /\ scimClient # Nil /\ last.op = "GetUsersForGroup" /\ last.req.GroupId # ""
       /\ params.AllowSearchUsersByGroup /\ params.GroupAttribute # ""

\* C29: every ListUsers and ListGroups call of a plugin operation has a
\* comparison as filter (never the null filter, never none), the configured
\* list method when one is configured and POST otherwise, no cursor and no
\* count, and is the only SCIM call of the operation; an operation that
\* reaches its list call makes exactly one; no plugin operation returns
\* ErrNoFilter; a list request that is sent has nothing but the filter in its
\* query or search body.
C29_ListCallsFilteredByConfiguredMethod ==
    last.op \in PluginOps
        => /\ \A i \in 1..Len(last.out.calls) :
                 last.out.calls[i].op \in {"ListUsers", "ListGroups"}
                    => /\ Len(last.out.calls) = 1
                       /\ last.out.calls[i].filter.kind = "cmp"
                       /\ last.out.calls[i].method
                            = (IF params.ListMethod # "" THEN params.ListMethod ELSE "POST")
                       /\ last.out.calls[i].cursor = NilPtr
                       /\ last.out.calls[i].count = NilPtr
                       /\ \A j \in 1..Len(last.out.sent) :
                             /\ Len(last.out.sent) = 1
                             /\ SentFilter(last.out.sent[j])
                                  = FilterToString(last.out.calls[i].filter)
                             /\ IF last.out.sent[j].method = "POST"
                                THEN /\ last.out.sent[j].body.Cursor = NilPtr
                                     /\ last.out.sent[j].body.Count = NilPtr
                                ELSE \A kv \in last.out.sent[j].query : kv[1] = "filter"
           /\ ReachesListCall
                 => /\ Len(last.out.calls) = 1
                    /\ last.out.calls[1].op \in {"ListUsers", "ListGroups"}
           /\ ErrNoFilter \cap last.out.err = {}

C29_Witness ==
    /\ last.op = "GetGroupsForUser"
    /\ scimClient # Nil
    /\ params.ListMethod = ""
    /\ params.UserAttribute = ""
    /\ Len(last.out.calls) = 1
    /\ last.out.calls[1].method = MethodPost
    /\ Len(last.out.sent) = 1
    /\ last.out.sent[1].method = MethodPost
    /\ last.out.sent[1].url = scimClient.host \o "/Groups/.search"
    /\ last.out.sent[1].body.Filter = "groups.display eq \"u1\""
    /\ last.out.err = NoErr

\* C30: with allowSearchUsersByGroup=true and no group attribute configured,
\* GetUsersForGroup with a non-blank group id makes no SCIM call, sends no
\* request and returns an error under ErrGetUsersForGroup: it does not search
\* by groups.display.  GetGroup and GetGroupsForUser with no attribute
\* configured do search, by displayName and by groups.display.
C30_NoDefaultForDirectSearch ==
    scimClient # Nil
        => /\ (/\ last.op = "GetUsersForGroup" /\ last.req.GroupId # ""
               /\ params.AllowSearchUsersByGroup /\ params.GroupAttribute = "")
                 => /\ ~last.out.panic
                    /\ last.out.calls = <<>>
                    /\ last.out.sent = <<>>
                    /\ last.out.resp = Nil
                    /\ last.out.err # NoErr
                    /\ ErrGetUsersForGroup \subseteq last.out.err
           /\ (last.op = "GetGroup" /\ last.req.GroupName # "" /\ params.GroupAttribute = "")
                 => /\ Len(last.out.calls) = 1
                    /\ last.out.calls[1].filter
                         = [kind |-> "cmp", Attribute |-> "displayName", Operator |-> "eq",
                            Value |-> last.req.GroupName]
           /\ (last.op = "GetGroupsForUser" /\ last.req.UserId # "" /\ params.UserAttribute = "")
                 => /\ Len(last.out.calls) = 1
                    /\ last.out.calls[1].filter
                         = [kind |-> "cmp", Attribute |-> "groups.display", Operator |-> "eq",
                            Value |-> last.req.UserId]

C30_Witness ==
    /\ scimClient # Nil
    /\ last.op = "GetUsersForGroup"
    /\ last.req.GroupId = "g2"
    /\ params.AllowSearchUsersByGroup
    /\ params.GroupAttribute = ""
    /\ params.UserAttribute = "attr"
    /\ RespOK(last.env.list)
    /\ Len(last.env.list.value.Resources) = 1
    /\ last.out.sent = <<>>
    /\ last.out.err = ErrGetUsersForGroup \cup ErrNoGroupAttribute

====
